---- MODULE Spec2Model ----
(***************************************************************************)
(* Model of the audio capture pipeline of the speech-analyzer desktop app: *)
(*   - the microphone frame assembler and poll loop                        *)
(*     (MicCapture.processAudioFrame, Session.tsx 509-595),                *)
(*   - the MicCapture start/stop life cycle (Session.tsx 386-668),         *)
(*   - the loopback capture of the main process (startLoopback,            *)
(*     stopLoopback and the RMS level monitor of the loopback module).     *)
(*                                                                         *)
(* Samples are identified by their position in the captured stream, and a  *)
(* block of samples is a sequence of runs <<lo, hi>> (positions lo..hi-1), *)
(* so that the program's real block sizes (2048, 4800) can be used.        *)
(* Positions below 0 are the zeros the analyser holds before capture.      *)
(***************************************************************************)
EXTENDS Integers, Sequences, FiniteSets

VARIABLES
    pipe,       \* assembler fields of MicCapture: sampleBuffer, rates, callbacks
    out,        \* what the callbacks have been given: frames, number of levels
    captured,   \* samples the analyser has captured (or that were pushed) so far
    ticks,      \* poll ticks / pushes made so far
    mic,        \* the fields of the MicCapture singleton
    env,        \* the browser's side: media streams, audio contexts, timers, graph
    calls,      \* the start() calls: where each is suspended and how it ended
    last,       \* the operation that ran last, and the state it found
    lb,         \* loopbackCapture and the loopback module's rmsInterval, lastPcmBuffer
    lenv,       \* Electron's side: hidden windows, ipcMain listeners, intervals
    lcalls,     \* the startLoopback() calls: where each is suspended, how it ended
    llast,      \* the loopback operation that ran last, and the state it found
    ui,         \* the Session component's state and its handleStart in progress
    sess,       \* SessionController, the sessions table, the handlers in progress
    dbm,        \* the main process's db module: db, initializationFailed, ...
    gen         \* FakeTranscriptGenerator, its inserts in flight, the events table

pipeVars == <<pipe, out, captured, ticks>>

micVars == <<mic, env, calls, last>>

loopVars == <<lb, lenv, lcalls, llast>>

uiVars == <<ui, sess, dbm, gen>>

vars == <<pipe, out, captured, ticks, mic, env, calls, last, lb, lenv, lcalls, llast, ui, sess,
         dbm, gen>>

----------------------------------------------------------------------------
(* Bounds of the model *)

\* poll ticks (or pushes) explored
MaxTicks == 4
\* a poll tick may run up to MaxLate timer periods after the previous one
MaxLate == 3
\* largest block pushed into the bare assembler
MaxBlock == 7
\* samplesPerFrame of the bare assembler is 3, 6, .. 3 * MaxFrameUnits
MaxFrameUnits == 2
\* start() calls of MicCapture explored (they may overlap)
MaxCalls == 2
\* poll ticks explored in the life-cycle model
MaxMicTicks == 2
\* startLoopback() calls explored (they may overlap)
MaxLoopCalls == 2
\* PCM messages handled by pcmHandler explored
MaxPcm == 2

\* initializeDb() / getDb() calls explored
MaxDbCalls == 5
\* transcript events generated, over all sessions
MaxEvents == 4

(* Program constants *)

\* analyserNode.fftSize
FftSize == 2048
\* new AudioContext({ sampleRate: 48000 })
ContextSampleRate == 48000
\* options.targetSampleRate || 16000
DefaultTargetRate == 16000
\* const sampleInterval = 10 (milliseconds)
SampleIntervalMs == 10
\* const frameDuration = 0.1, as a divisor: 1 / 0.1
FramesPerSecond == 10

\* values of options.targetSampleRate explored; 0 stands for "not given"
TargetRateOptions == {0, 8000, 16000, 22050, 44100, 48000, 96000}

----------------------------------------------------------------------------
(* Arithmetic *)

\* Math.round(n / d) for d > 0: floor(n/d + 1/2), halves go up
Round(n, d) == (2 * n + d) \div (2 * d)

(* Blocks of samples as runs of stream positions *)

RunLen(r) == r[2] - r[1]

RECURSIVE RunsLen(_)
RunsLen(rs) == IF rs = <<>> THEN 0 ELSE RunLen(Head(rs)) + RunsLen(Tail(rs))

\* rs followed by the run r; a run that continues the last one is merged into it
AppendRun(rs, r) ==
    IF RunLen(r) = 0 THEN rs
    ELSE IF rs # <<>> /\ rs[Len(rs)][2] = r[1]
         THEN [rs EXCEPT ![Len(rs)] = <<rs[Len(rs)][1], r[2]>>]
         ELSE Append(rs, r)

RECURSIVE ConcatRuns(_, _)
ConcatRuns(a, b) == IF b = <<>> THEN a ELSE ConcatRuns(AppendRun(a, Head(b)), Tail(b))

\* concatenated.slice(0, n)
RECURSIVE TakeRuns(_, _)
TakeRuns(rs, n) ==
    IF n <= 0 \/ rs = <<>> THEN <<>>
    ELSE LET h == Head(rs) IN
         IF RunLen(h) <= n THEN <<h>> \o TakeRuns(Tail(rs), n - RunLen(h))
         ELSE << <<h[1], h[1] + n>> >>

\* concatenated.slice(n)
RECURSIVE DropRuns(_, _)
DropRuns(rs, n) ==
    IF n <= 0 \/ rs = <<>> THEN rs
    ELSE LET h == Head(rs) IN
         IF RunLen(h) <= n THEN DropRuns(Tail(rs), n - RunLen(h))
         ELSE << <<h[1] + n, h[2]>> >> \o Tail(rs)

\* every run starts where the previous one ended: nothing skipped, nothing repeated
RECURSIVE Contiguous(_)
Contiguous(rs) ==
    \/ Len(rs) <= 1
    \/ /\ rs[1][2] = rs[2][1]
       /\ Contiguous(Tail(rs))

----------------------------------------------------------------------------
(* audioUtils *)

\* calculateRMS throws on an empty block or a non-finite sample
CalculateRMSThrows(len, finite) == len = 0 \/ ~finite

\* downsample throws on an empty block, a rate <= 0 or a computed length <= 0
DownsampleThrows(len, src, tgt) ==
    \/ len = 0
    \/ src <= 0
    \/ tgt <= 0
    \/ (src # tgt /\ Round(len * tgt, src) <= 0)

\* a mutation of DownsampleLength: the length is rounded down
DownsampleLengthFloor(len, src, tgt) == IF src = tgt THEN len ELSE (len * tgt) \div src

\* length of downsample's result: the block itself at equal rates, else
\* Math.round(sourceBuffer.length / (sourceSampleRate / targetSampleRate))
DownsampleLength(len, src, tgt) == IF src = tgt THEN len ELSE Round(len * tgt, src)

\* this.samplesPerFrame = Math.round(this.sourceSampleRate * frameDuration)
SamplesPerFrame(src) == Round(src, FramesPerSecond)

----------------------------------------------------------------------------
(* MicCapture.processAudioFrame *)

\* a mutation of AssemblerPush: the frame takes everything buffered
AssemblerPushWholeBuffer(buf, block, spf) ==
    LET all == ConcatRuns(buf, block) IN
    IF RunsLen(all) >= spf
    THEN [buffer |-> <<>>, frame |-> <<all>>]
    ELSE [buffer |-> all, frame |-> <<>>]

\* a mutation of AssemblerPush: the frame is emitted but nothing leaves the buffer
AssemblerPushKeepsAll(buf, block, spf) ==
    LET all == ConcatRuns(buf, block) IN
    IF RunsLen(all) >= spf
    THEN [buffer |-> all, frame |-> <<TakeRuns(all, spf)>>]
    ELSE [buffer |-> all, frame |-> <<>>]

\* lines 539-559: append the block; when at least samplesPerFrame samples are
\* buffered, slice ONE frame off the front and keep the rest
AssemblerPush(buf, block, spf) ==
    LET all == ConcatRuns(buf, block) IN
    IF RunsLen(all) >= spf
    THEN [buffer |-> DropRuns(all, spf), frame |-> <<TakeRuns(all, spf)>>]
    ELSE [buffer |-> all, frame |-> <<>>]

\* a mutation of EmitFrame: the frame is encoded without being downsampled
EmitFrameNoDownsample(p, src) ==
    LET n == RunsLen(src) IN
    IF DownsampleThrows(n, p.sourceSampleRate, p.targetSampleRate) THEN <<>>
    ELSE IF n = 0 \/ ~p.onPcmFrame THEN <<>>
         ELSE << [src |-> src, len |-> n] >>

\* lines 561-593: downsample, encode, hand to onPcmFrame; nothing is emitted when
\* a step throws or there is no callback.  floatToInt16 keeps the length.
EmitFrame(p, src) ==
    LET n == RunsLen(src) IN
    IF DownsampleThrows(n, p.sourceSampleRate, p.targetSampleRate) THEN <<>>
    ELSE LET m == DownsampleLength(n, p.sourceSampleRate, p.targetSampleRate) IN
         IF m = 0 \/ ~p.onPcmFrame THEN <<>>
         ELSE << [src |-> src, len |-> m] >>

\* a mutation of ProcessAudioFrame: the block is buffered before its RMS is
\* calculated
ProcessAudioFrameBuffersFirst(p, block, finite) ==
    LET a == AssemblerPush(p.sampleBuffer, block, p.samplesPerFrame) IN
    IF CalculateRMSThrows(RunsLen(block), finite)
    THEN [pipe |-> [p EXCEPT !.sampleBuffer = a.buffer], frames |-> <<>>, levels |-> 0]
    ELSE [pipe   |-> [p EXCEPT !.sampleBuffer = a.buffer],
          frames |-> IF a.frame = <<>> THEN <<>> ELSE EmitFrame(p, a.frame[1]),
          levels |-> IF p.onLevel THEN 1 ELSE 0]

\* one call of processAudioFrame on the analyser block `block`
ProcessAudioFrame(p, block, finite) ==
    IF CalculateRMSThrows(RunsLen(block), finite)
    THEN [pipe |-> p, frames |-> <<>>, levels |-> 0]
    ELSE LET a == AssemblerPush(p.sampleBuffer, block, p.samplesPerFrame) IN
         [pipe   |-> [p EXCEPT !.sampleBuffer = a.buffer],
          frames |-> IF a.frame = <<>> THEN <<>> ELSE EmitFrame(p, a.frame[1]),
          levels |-> IF p.onLevel THEN 1 ELSE 0]

----------------------------------------------------------------------------
(* MicCapture: the object and the browser resources it acquires *)

CallIds == 1..MaxCalls

\* Every start() call acquires its own media stream, audio context, nodes and
\* interval; they carry the call's id.  0 is null / undefined.
MicNew ==
    [audioContext |-> 0, mediaStream |-> 0, sourceNode |-> 0, analyserNode |-> 0,
     silentGain |-> 0, isCapturing |-> FALSE, sampleIntervalId |-> 0,
     onLevelCallback |-> 0, onPcmFrameCallback |-> 0,
     targetSampleRate |-> DefaultTargetRate,
     sampleBuffer |-> <<>>, samplesPerFrame |-> 0, sourceSampleRate |-> 0]

EnvNew ==
    [streams   |-> [i \in CallIds |-> "none"],     \* none, live, stopped
     contexts  |-> [i \in CallIds |-> "none"],     \* none, suspended, running, closed
     timers    |-> {},                             \* the active intervals
     connected |-> {},                             \* the nodes with connections
     polls     |-> 0,                              \* poll ticks run so far
     invoked   |-> 0]                              \* callbacks invoked by the last tick

CallsNew ==
    [i \in CallIds |-> [pc |-> "new", result |-> "none", stopped |-> FALSE,
                        stopAfter |-> FALSE]]

\* what a stop() means to the start() calls made so far: `stopped` marks the
\* calls it found suspended on the permission request, `stopAfter` the calls
\* made before it
CallsAfterStop(cs) ==
    [i \in CallIds |-> [cs[i] EXCEPT !.stopped = @ \/ cs[i].pc = "awaitGUM",
                                     !.stopAfter = @ \/ cs[i].pc # "new"]]

LastNone == [op |-> "none", call |-> 0, pre |-> MicNew]

\* lines 615-668 with the audio context left open: a mutation of Cleanup
CleanupKeepsContext(w) ==
    LET m == w.mic
        e == w.env
    IN [mic |-> [m EXCEPT !.sampleIntervalId = 0, !.silentGain = 0,
                          !.analyserNode = 0, !.sourceNode = 0, !.mediaStream = 0,
                          !.sampleBuffer = <<>>,
                          !.onLevelCallback = 0, !.onPcmFrameCallback = 0],
        env |-> [e EXCEPT
                   !.timers = @ \ {m.sampleIntervalId},
                   !.connected = @ \ {<<"gain", m.silentGain>>,
                                      <<"analyser", m.analyserNode>>,
                                      <<"source", m.sourceNode>>},
                   !.streams = [s \in CallIds |->
                                   IF s = m.mediaStream THEN "stopped" ELSE @[s]]]]

\* cleanup(), lines 615-668: each resource that is held is released and its
\* field cleared; the buffer and the callbacks are cleared.  isCapturing is
\* not touched.
Cleanup(w) ==
    LET m == w.mic
        e == w.env
    IN [mic |-> [m EXCEPT !.sampleIntervalId = 0, !.silentGain = 0,
                          !.analyserNode = 0, !.sourceNode = 0, !.mediaStream = 0,
                          !.audioContext = 0, !.sampleBuffer = <<>>,
                          !.onLevelCallback = 0, !.onPcmFrameCallback = 0],
        env |-> [e EXCEPT
                   !.timers = @ \ {m.sampleIntervalId},
                   !.connected = @ \ {<<"gain", m.silentGain>>,
                                      <<"analyser", m.analyserNode>>,
                                      <<"source", m.sourceNode>>},
                   !.streams = [s \in CallIds |->
                                   IF s = m.mediaStream THEN "stopped" ELSE @[s]],
                   !.contexts = [c \in CallIds |->
                                   IF c = m.audioContext THEN "closed" ELSE @[c]]]]

\* stop(), lines 600-603
Stop(w) == Cleanup([w EXCEPT !.mic.isCapturing = FALSE])

\* the catch of lines 418-426: stop the tracks of this.mediaStream, clear it
CatchContextError(w) ==
    [w EXCEPT !.env.streams = [s \in CallIds |->
                                  IF s = w.mic.mediaStream THEN "stopped" ELSE @[s]],
              !.mic.mediaStream = 0]

\* the catch of lines 477-481: cleanup(), and the error goes to the caller
StartFails(w) == [w |-> Cleanup(w), pc |-> "done", result |-> "rejected"]

\* startSampling, lines 487-504: clear a previous interval, set a new one
StartSampling(w, i) ==
    [w EXCEPT !.env.timers = (@ \ {w.mic.sampleIntervalId}) \cup {i},
              !.mic.sampleIntervalId = i]

\* start(), lines 417-476, for call i: read the context's rate, build the graph,
\* start sampling.  `o` is where the browser makes it fail, if anywhere.  The
\* fields read here are the object's current ones: another call or a stop()
\* that ran while this call was suspended has changed them.
BuildGraph(w, i, o) ==
    IF w.mic.audioContext = 0
    THEN StartFails(CatchContextError(w))  \* this.audioContext.sampleRate of null
    ELSE
    LET w1 == [w EXCEPT !.mic.sourceSampleRate = ContextSampleRate] IN
    IF o = "sourceThrow" \/ w1.mic.mediaStream = 0
    THEN StartFails(Cleanup(w1))
    ELSE
    LET w2 == [w1 EXCEPT !.mic.sourceNode = i] IN
    IF o = "analyserThrow"
    THEN StartFails(Cleanup(w2))
    ELSE
    LET w3 == [w2 EXCEPT !.mic.analyserNode = i] IN
    IF o = "gainThrow"
    THEN StartFails(Cleanup(w3))
    ELSE
    LET w4 == [w3 EXCEPT
                 !.mic.silentGain = i,
                 !.mic.samplesPerFrame = SamplesPerFrame(w1.mic.sourceSampleRate),
                 !.env.connected = @ \cup {<<"source", i>>, <<"analyser", i>>,
                                           <<"gain", i>>},
                 !.mic.sampleBuffer = <<>>]
        w5 == StartSampling(w4, i)
    IN [w |-> [w5 EXCEPT !.mic.isCapturing = TRUE], pc |-> "done",
        result |-> "resolved"]

\* start(), lines 397-415, for call i once getUserMedia has settled
AfterGetUserMedia(w, i, o) ==
    IF o = "reject" THEN StartFails(w)
    ELSE
    LET w1 == [w EXCEPT !.mic.mediaStream = i, !.env.streams[i] = "live"] IN
    IF o = "contextThrow" THEN StartFails(CatchContextError(w1))
    ELSE IF o = "suspended"
    THEN [w |-> [w1 EXCEPT !.mic.audioContext = i, !.env.contexts[i] = "suspended"],
          pc |-> "awaitResume", result |-> "none"]
    ELSE BuildGraph([w1 EXCEPT !.mic.audioContext = i, !.env.contexts[i] = "running"],
                    i, o)

\* start(), line 414 onwards, for call i once audioContext.resume() has settled
AfterResume(w, i, o) ==
    IF o = "reject" THEN StartFails(CatchContextError(w))
    ELSE BuildGraph([w EXCEPT !.env.contexts[i] =
                                 IF @ = "suspended" THEN "running" ELSE @],
                    i, o)

\* start(options), lines 386-393, for call i: a capturing capture is stopped
\* first; the callbacks and the target rate are taken from the options
StartBegins(w, i) ==
    LET w0 == IF w.mic.isCapturing THEN Stop(w) ELSE w IN
    [w0 EXCEPT !.mic.onLevelCallback = i, !.mic.onPcmFrameCallback = i,
               !.mic.targetSampleRate = DefaultTargetRate]

GraphOutcomes == {"ok", "sourceThrow", "analyserThrow", "gainThrow"}

GetUserMediaOutcomes == GraphOutcomes \cup {"reject", "contextThrow", "suspended"}

ResumeOutcomes == GraphOutcomes \cup {"reject"}

----------------------------------------------------------------------------
(* Loopback capture (main process) *)

LoopIds == 1..MaxLoopCalls

\* Every startLoopback() call creates its own hidden window, pcmHandler and
\* (when it gets that far) interval; they carry the call's id.  0 is null.
\* lastPcmBuffer holds the number of the PCM message stored, 0 for null.
LbNew ==
    [isCapturing |-> FALSE, hiddenWindow |-> 0, pcmHandler |-> 0,
     onPcmCallback |-> 0, rmsInterval |-> 0, lastPcmBuffer |-> 0,
     levelHandler |-> 0]                        \* set by main.js, line 508

LenvNew ==
    [windows   |-> [i \in LoopIds |-> "none"],  \* none, loading, loaded, destroyed
     listeners |-> {},                          \* handlers on 'loopback-pcm-data'
     levelListeners |-> {},                     \* main.js handlers on 'level'
     mainWindow |-> "open",                     \* main.js mainWindow: open, closed (null)
     forwarded |-> 0,                           \* levels sent to the main window by the last tick
     timers    |-> {},                          \* the active intervals
     pcmSent   |-> 0,                           \* PCM messages handled so far
     fresh     |-> 0,                           \* PCM messages handled since the last tick
     levels    |-> 0,                           \* 'level' events emitted by the last step
     delivered |-> 0]                           \* onPcm calls made by the last step

\* a step that emits no 'level' event and calls no onPcm
Quiet(e) == [e EXCEPT !.levels = 0, !.delivered = 0, !.forwarded = 0]

LcallsNew ==
    [i \in LoopIds |-> [pc |-> "new", result |-> "none", inTime |-> FALSE,
                        stopped |-> FALSE, stopAfter |-> FALSE]]

\* what a stopLoopback() means to the startLoopback() calls made so far:
\* `stopped` marks the calls it found suspended, `stopAfter` the calls made
\* before it
LcallsAfterStop(cs) ==
    [i \in LoopIds |-> [cs[i] EXCEPT !.stopped = @ \/ cs[i].pc \notin {"new", "done"},
                                     !.stopAfter = @ \/ cs[i].pc # "new"]]

LlastNone == [op |-> "none", call |-> 0, pre |-> LbNew, fresh |-> 0]

\* stopRMSMonitoring, lines 322-328
StopRMSMonitoring(w) ==
    [w EXCEPT !.lenv.timers = @ \ {w.lb.rmsInterval},
              !.lb.rmsInterval = 0,
              !.lb.lastPcmBuffer = 0,
              !.lenv.fresh = 0]

\* startRMSMonitoring, lines 309-320, setting interval i
StartRMSMonitoring(w, i) ==
    LET w1 == StopRMSMonitoring(w) IN
    [w1 EXCEPT !.lb.rmsInterval = i, !.lenv.timers = @ \cup {i}]

\* the catch of startLoopback, lines 244-252: destroys the window that
\* loopbackCapture.hiddenWindow refers to (not the local hiddenWindow)
StartLoopbackFails(w, why) ==
    [w |-> [w EXCEPT !.lenv.windows = [x \in LoopIds |->
                                          IF x = w.lb.hiddenWindow THEN "destroyed"
                                          ELSE @[x]],
                     !.lb.hiddenWindow = 0,
                     !.lb.isCapturing = FALSE],
     pc |-> "done", result |-> why]

\* startLoopback, lines 216-243, for call i once 'did-finish-load' has fired
StartLoopbackSucceeds(w, i) ==
    LET w1 == [w EXCEPT !.lb.hiddenWindow = i, !.lb.pcmHandler = i,
                        !.lb.isCapturing = TRUE, !.lb.onPcmCallback = i,
                        !.lenv.listeners = @ \cup {i}]
    IN [w |-> StartRMSMonitoring(w1, i), pc |-> "done", result |-> "resolved"]

\* a mutation of StopLoopback: without the early return of lines 259-261
StopLoopbackUnguarded(w) ==
    LET hw == w.lb.hiddenWindow
        w1 == IF hw # 0 /\ w.lenv.windows[hw] # "destroyed"
              THEN [w EXCEPT !.lenv.windows[hw] = "destroyed", !.lb.hiddenWindow = 0]
              ELSE w
        w2 == [w1 EXCEPT !.lenv.listeners = @ \ {w.lb.pcmHandler},
                         !.lb.pcmHandler = 0]
        w3 == StopRMSMonitoring(w2)
    IN [w3 EXCEPT !.lb.isCapturing = FALSE, !.lb.onPcmCallback = 0]

\* stopLoopback, lines 258-303
StopLoopback(w) ==
    IF ~w.lb.isCapturing THEN w
    ELSE
    LET hw == w.lb.hiddenWindow
        w1 == IF hw # 0 /\ w.lenv.windows[hw] # "destroyed"
              THEN [w EXCEPT !.lenv.windows[hw] = "destroyed", !.lb.hiddenWindow = 0]
              ELSE w
        w2 == [w1 EXCEPT !.lenv.listeners = @ \ {w.lb.pcmHandler},
                         !.lb.pcmHandler = 0]
        w3 == StopRMSMonitoring(w2)
    IN [w3 EXCEPT !.lb.isCapturing = FALSE, !.lb.onPcmCallback = 0]

\* a mutation of RmsTick: lastPcmBuffer is not cleared after the event
RmsTickKeepsBuffer(w) ==
    IF w.lb.lastPcmBuffer # 0 /\ w.lb.isCapturing
    THEN [w EXCEPT !.lenv.levels = 1, !.lenv.fresh = 0, !.lenv.delivered = 0]
    ELSE [w EXCEPT !.lenv.levels = 0, !.lenv.fresh = 0, !.lenv.delivered = 0]

\* the interval callback of lines 313-319: the level of lastPcmBuffer is
\* emitted and lastPcmBuffer cleared
RmsTick(w) ==
    IF w.lb.lastPcmBuffer # 0 /\ w.lb.isCapturing
    THEN [w EXCEPT !.lenv.levels = 1, !.lb.lastPcmBuffer = 0, !.lenv.fresh = 0,
                   !.lenv.delivered = 0]
    ELSE [w EXCEPT !.lenv.levels = 0, !.lenv.fresh = 0, !.lenv.delivered = 0]

\* ipcMain delivers a PCM message to the registered pcmHandlers, lines 217-229;
\* with no handler registered it is dropped.  n numbers the messages handled.
PcmHandlers(w, n) ==
    IF w.lenv.listeners = {} THEN [w EXCEPT !.lenv.delivered = 0, !.lenv.levels = 0]
    ELSE [w EXCEPT !.lb.lastPcmBuffer = IF w.lb.isCapturing THEN n ELSE @,
                   !.lenv.fresh = @ + 1,
                   !.lenv.pcmSent = n,
                   !.lenv.levels = 0,
                   !.lenv.delivered = IF w.lb.isCapturing
                                      THEN Cardinality(w.lenv.listeners) ELSE 0]

\* useState of the Session component (lines 14-20), and where its handleStart
\* is suspended: pc, the start() call it made, how startSession ended, and
\* the handler that ran last
UiNew ==
    [isRecording |-> FALSE, currentSessionId |-> FALSE, micStatus |-> "Idle",
     errorMessage |-> FALSE, pc |-> "idle", call |-> 0, startSession |-> "none",
     op |-> "none"]

SessIds == 1..MaxCalls

\* SessionController's fields (lines 10-12; 0 is null), the rows of the
\* sessions table by session id, the Session component's isRecording and
\* currentSessionId, and the handleStart / handleStop calls in progress.  A
\* session carries the number of the handleStart call that created it.
SessNew ==
    [currentSessionId |-> 0, framesCaptured |-> 0, lastLevel |-> 0,
     store  |-> [x \in SessIds |-> "none"],        \* none, RUNNING, COMPLETED
     view   |-> [isRecording |-> FALSE, currentSessionId |-> 0],
     starts |-> [h \in SessIds |-> [pc |-> "new", call |-> 0, overlapped |-> FALSE]],
     stop   |-> [pc |-> "idle", session |-> 0, isCapturing |-> FALSE,
                 currentSessionId |-> 0, framesCaptured |-> 0, lastLevel |-> 0],
     last   |-> [op |-> "none", h |-> 0, micFailed |-> FALSE]]

\* The db module's variables (db.js lines 16-18; 0 and "none" are null) with
\* the readiness of the Electron app, the connections opened so far with
\* new Database() and those closed again, and the calls made: whether one of
\* them has failed, the connection the first successful one returned, what
\* each call returned or threw, and what the last one did.
DbNew ==
    [db |-> 0, initializationFailed |-> FALSE, initializationError |-> "none",
     appReady |-> FALSE, opened |-> 0, closed |-> {},
     calls |-> 0, failedOnce |-> FALSE, first |-> 0, log |-> <<>>,
     last |-> [op |-> "none", ret |-> 0, threw |-> "none", failedBefore |-> FALSE,
               firstBefore |-> 0, openedBefore |-> 0]]

\* FakeTranscriptGenerator's fields (lines 8-12; 0 is null), the inserts that
\* db.insertTranscriptEvent has not settled yet, the rows of transcript_events
\* in the order they were inserted, and the history the properties need.
\* startTimeMs is written by start() and never read.
GenNew ==
    [intervalId |-> 0, sessionId |-> 0, currentTimeMs |-> 0, speakerIndex |-> 0,
     pending |-> <<>>, events |-> <<>>, intervals |-> 0, sessions |-> 0,
     generated |-> 0, overlapped |-> FALSE,
     last |-> [op |-> "none", currentTimeMs |-> 0, speakerIndex |-> 0]]

InitUi == ui = UiNew /\ sess = SessNew /\ dbm = DbNew /\ gen = GenNew

World == [mic |-> mic, env |-> env]


InitMic ==
    /\ mic = MicNew
    /\ env = EnvNew
    /\ calls = CallsNew
    /\ last = LastNone

\* start(options), lines 386-397, up to the await of getUserMedia
MicStart(i) ==
    /\ calls[i].pc = "new"
    /\ \A j \in CallIds : j < i => calls[j].pc # "new"
    /\ LET w1 == StartBegins(World, i) IN
         /\ mic' = w1.mic
         /\ env' = w1.env
    /\ calls' = [calls EXCEPT ![i].pc = "awaitGUM"]
    /\ last' = [op |-> "start", call |-> i, pre |-> mic]
    /\ UNCHANGED <<uiVars, pipeVars, loopVars>>

\* getUserMedia settles and the call runs on to its next await or its end
MicGetUserMediaSettles(i, o) ==
    /\ calls[i].pc = "awaitGUM"
    /\ LET r == AfterGetUserMedia(World, i, o) IN
         /\ mic' = r.w.mic
         /\ env' = r.w.env
         /\ calls' = [calls EXCEPT ![i].pc = r.pc, ![i].result = r.result]
    /\ last' = [op |-> "continue", call |-> i, pre |-> mic]
    /\ UNCHANGED <<uiVars, pipeVars, loopVars>>

\* audioContext.resume() settles and the call runs on to its end
MicResumeSettles(i, o) ==
    /\ calls[i].pc = "awaitResume"
    /\ LET r == AfterResume(World, i, o) IN
         /\ mic' = r.w.mic
         /\ env' = r.w.env
         /\ calls' = [calls EXCEPT ![i].pc = r.pc, ![i].result = r.result]
    /\ last' = [op |-> "continue", call |-> i, pre |-> mic]
    /\ UNCHANGED <<uiVars, pipeVars, loopVars>>

\* stop()
MicStop ==
    /\ LET r == Stop(World) IN
         /\ mic' = r.mic
         /\ env' = r.env
    /\ calls' = CallsAfterStop(calls)
    /\ last' = [op |-> "stop", call |-> 0, pre |-> mic]
    /\ UNCHANGED <<uiVars, pipeVars, loopVars>>

\* the interval callback of lines 492-503 for the active interval t
MicPollTick(t, finite) ==
    /\ t \in env.timers
    /\ env.polls < MaxMicTicks
    /\ IF ~mic.isCapturing \/ mic.analyserNode = 0 \/ mic.audioContext = 0
       THEN /\ mic' = mic
            /\ env' = [env EXCEPT !.polls = @ + 1, !.invoked = 0]
       ELSE LET p == [sampleBuffer |-> mic.sampleBuffer,
                      samplesPerFrame |-> mic.samplesPerFrame,
                      sourceSampleRate |-> mic.sourceSampleRate,
                      targetSampleRate |-> mic.targetSampleRate,
                      onLevel |-> mic.onLevelCallback # 0,
                      onPcmFrame |-> mic.onPcmFrameCallback # 0]
                r == ProcessAudioFrame(p, << <<0, FftSize>> >>, finite)
            IN /\ mic' = [mic EXCEPT !.sampleBuffer = r.pipe.sampleBuffer]
               /\ env' = [env EXCEPT !.polls = @ + 1,
                                     !.invoked = r.levels + Len(r.frames)]
    /\ last' = [op |-> "tick", call |-> t, pre |-> mic, finite |-> finite]
    /\ UNCHANGED <<uiVars, calls, pipeVars, loopVars>>

NextMic ==
    \/ \E i \in CallIds : MicStart(i)
    \/ \E i \in CallIds, o \in GetUserMediaOutcomes : MicGetUserMediaSettles(i, o)
    \/ \E i \in CallIds, o \in ResumeOutcomes : MicResumeSettles(i, o)
    \/ MicStop
    \/ \E t \in CallIds, finite \in BOOLEAN : MicPollTick(t, finite)

LoopWorld == [lb |-> lb, lenv |-> lenv]

InitLoopback ==
    /\ lb = LbNew
    /\ lenv = LenvNew
    /\ lcalls = LcallsNew
    /\ llast = LlastNone

\* startLoopback, lines 86-202, up to the await of loadURL
LbStart(i) ==
    /\ lcalls[i].pc = "new"
    /\ \A j \in LoopIds : j < i => lcalls[j].pc # "new"
    /\ IF lb.isCapturing
       THEN /\ lcalls' = [lcalls EXCEPT ![i].pc = "done", ![i].result = "alreadyRunning"]
            /\ lenv' = Quiet(lenv)
       ELSE /\ lcalls' = [lcalls EXCEPT ![i].pc = "awaitLoad"]
            /\ lenv' = Quiet([lenv EXCEPT !.windows[i] = "loading"])
    /\ lb' = lb
    /\ llast' = [op |-> "start", call |-> i, pre |-> lb, fresh |-> lenv.fresh]
    /\ UNCHANGED <<uiVars, pipeVars, micVars>>

\* loadURL resolves: the page has finished loading ('did-finish-load' has been
\* emitted), within 10 s of the call or later; lines 205-214 then arm the 10 s
\* timeout and listen for the next 'did-finish-load'
LbLoadResolves(i, inTime) ==
    /\ lcalls[i].pc = "awaitLoad"
    /\ lenv.windows[i] = "loading"
    /\ lcalls' = [lcalls EXCEPT ![i].pc = "awaitReady", ![i].inTime = inTime]
    /\ lenv' = Quiet([lenv EXCEPT !.windows[i] = "loaded"])
    /\ lb' = lb
    /\ llast' = [op |-> "loaded", call |-> i, pre |-> lb, fresh |-> lenv.fresh]
    /\ UNCHANGED <<uiVars, pipeVars, micVars>>

\* loadURL rejects: the catch runs
LbLoadRejects(i) ==
    /\ lcalls[i].pc = "awaitLoad"
    /\ LET r == StartLoopbackFails(LoopWorld, "loadFailed") IN
         /\ lb' = r.w.lb
         /\ lenv' = Quiet(r.w.lenv)
         /\ lcalls' = [lcalls EXCEPT ![i].pc = r.pc, ![i].result = r.result]
    /\ llast' = [op |-> "continue", call |-> i, pre |-> lb, fresh |-> lenv.fresh]
    /\ UNCHANGED <<uiVars, pipeVars, micVars>>

\* the window emits 'did-finish-load' again while the call listens for it
LbReadyFires(i) ==
    /\ lcalls[i].pc = "awaitReady"
    /\ lenv.windows[i] = "loaded"
    /\ LET r == StartLoopbackSucceeds(LoopWorld, i) IN
         /\ lb' = r.w.lb
         /\ lenv' = Quiet(r.w.lenv)
         /\ lcalls' = [lcalls EXCEPT ![i].pc = r.pc, ![i].result = r.result]
    /\ llast' = [op |-> "continue", call |-> i, pre |-> lb, fresh |-> lenv.fresh]
    /\ UNCHANGED <<uiVars, pipeVars, micVars>>

\* the 10 s timeout of lines 206-208 fires first: the catch runs
LbReadyTimeout(i) ==
    /\ lcalls[i].pc = "awaitReady"
    /\ LET r == StartLoopbackFails(LoopWorld, "timeout") IN
         /\ lb' = r.w.lb
         /\ lenv' = Quiet(r.w.lenv)
         /\ lcalls' = [lcalls EXCEPT ![i].pc = r.pc, ![i].result = r.result]
    /\ llast' = [op |-> "continue", call |-> i, pre |-> lb, fresh |-> lenv.fresh]
    /\ UNCHANGED <<uiVars, pipeVars, micVars>>

\* stopLoopback()
LbStop ==
    /\ LET r == StopLoopback(LoopWorld) IN
         /\ lb' = r.lb
         /\ lenv' = Quiet(r.lenv)
    /\ lcalls' = LcallsAfterStop(lcalls)
    /\ llast' = [op |-> "stop", call |-> 0, pre |-> lb, fresh |-> lenv.fresh]
    /\ UNCHANGED <<uiVars, pipeVars, micVars>>

\* a hidden window is destroyed by something other than loopback capture
LbWindowDestroyed(i) ==
    /\ lenv.windows[i] \in {"loading", "loaded"}
    /\ lenv' = Quiet([lenv EXCEPT !.windows[i] = "destroyed"])
    /\ llast' = [op |-> "destroyed", call |-> i, pre |-> lb, fresh |-> lenv.fresh]
    /\ UNCHANGED <<uiVars, lb, lcalls, pipeVars, micVars>>

\* the script of a loaded hidden window sends a frame on 'loopback-pcm-data'
LbPcmMessage(i) ==
    /\ lenv.windows[i] = "loaded"
    /\ lenv.pcmSent < MaxPcm
    /\ LET r == PcmHandlers(LoopWorld, lenv.pcmSent + 1) IN
         /\ lb' = r.lb
         /\ lenv' = r.lenv
    /\ llast' = [op |-> "pcm", call |-> i, pre |-> lb, fresh |-> lenv.fresh]
    /\ UNCHANGED <<uiVars, lcalls, pipeVars, micVars>>

\* the active interval t of the level monitor ticks
LbRmsTick(t) ==
    /\ t \in lenv.timers
    /\ LET r == RmsTick(LoopWorld) IN
         /\ lb' = r.lb
         /\ lenv' = r.lenv
    /\ llast' = [op |-> "tick", call |-> t, pre |-> lb, fresh |-> lenv.fresh]
    /\ UNCHANGED <<uiVars, lcalls, pipeVars, micVars>>

NextLoop ==
    \/ \E i \in LoopIds : LbStart(i)
    \/ \E i \in LoopIds, inTime \in BOOLEAN : LbLoadResolves(i, inTime)
    \/ \E i \in LoopIds : LbLoadRejects(i)
    \/ \E i \in LoopIds : LbReadyFires(i)
    \/ \E i \in LoopIds : LbReadyTimeout(i)
    \/ LbStop
    \/ \E i \in LoopIds : LbWindowDestroyed(i)
    \/ \E i \in LoopIds : LbPcmMessage(i)
    \/ \E t \in LoopIds : LbRmsTick(t)

PipeIdle ==
    /\ pipe = [sampleBuffer |-> <<>>, samplesPerFrame |-> 0, sourceSampleRate |-> 0,
               targetSampleRate |-> DefaultTargetRate,
               onLevel |-> FALSE, onPcmFrame |-> FALSE]
    /\ out = [frames |-> <<>>, levels |-> 0]
    /\ captured = 0
    /\ ticks = 0

Init == InitMic /\ PipeIdle /\ InitLoopback /\ InitUi

Spec == Init /\ [][NextMic]_vars

InitLoop == InitLoopback /\ InitMic /\ PipeIdle /\ InitUi

SpecLoop == InitLoop /\ [][NextLoop]_vars

----------------------------------------------------------------------------
(* Claims about the MicCapture life cycle *)

Released ==
    /\ mic.mediaStream = 0
    /\ mic.audioContext = 0
    /\ mic.sampleIntervalId = 0
    /\ ~mic.isCapturing

NodesCleared ==
    /\ mic.sourceNode = 0
    /\ mic.analyserNode = 0
    /\ mic.silentGain = 0

\* C3: if stop() was called while a start() call was suspended on the
\* permission request, then once that call's continuation has run the capture
\* holds no media stream, no audio context, no poll timer and is not capturing.
C3_StopDuringStartCancels ==
    (/\ last.op = "continue"
     /\ calls[last.call].pc = "done"
     /\ calls[last.call].stopped) => Released

\* C4: stop() leaves the poll timer cancelled, the nodes disconnected and
\* cleared, the media stream stopped and cleared, the audio context released
\* and isCapturing false, whatever state it found; stop() again changes nothing.
C4_StopReleasesAll ==
    last.op = "stop" =>
        /\ Released
        /\ NodesCleared
        /\ mic.sampleBuffer = <<>>
        /\ env.timers = {}
        /\ last.pre.mediaStream # 0 => env.streams[last.pre.mediaStream] = "stopped"
        /\ last.pre.audioContext # 0 => env.contexts[last.pre.audioContext] = "closed"
        /\ <<"source", last.pre.sourceNode>> \notin env.connected
        /\ <<"analyser", last.pre.analyserNode>> \notin env.connected
        /\ <<"gain", last.pre.silentGain>> \notin env.connected
        /\ Stop(World) = World

\* stop() has run on a capture that was capturing with a buffered block
C4_Witness ==
    /\ last.op = "stop"
    /\ last.pre.isCapturing
    /\ last.pre.audioContext # 0
    /\ last.pre.sampleBuffer # <<>>

\* C5: when a start() call fails, at whatever step, the error is thrown to its
\* caller and at that moment no media stream, audio context, node or poll
\* timer is held and isCapturing is false.
C5_FailedStartRollsBack ==
    (/\ last.op = "continue"
     /\ calls[last.call].result = "rejected") => (Released /\ NodesCleared)

----------------------------------------------------------------------------
(* The bare frame assembler: pushes of blocks of any size *)

InitAsm ==
    /\ \E k \in 1..MaxFrameUnits :
         pipe = [sampleBuffer |-> <<>>, samplesPerFrame |-> 3 * k,
                 sourceSampleRate |-> ContextSampleRate,
                 targetSampleRate |-> DefaultTargetRate,
                 onLevel |-> TRUE, onPcmFrame |-> TRUE]
    /\ out = [frames |-> <<>>, levels |-> 0]
    /\ captured = 0
    /\ ticks = 0
    /\ InitMic
    /\ InitLoopback
    /\ InitUi

\* push(block): processAudioFrame on a block of n new samples
Push(n) ==
    /\ ticks < MaxTicks
    /\ LET r == ProcessAudioFrame(pipe, << <<captured, captured + n>> >>, TRUE) IN
         /\ pipe' = r.pipe
         /\ out' = [frames |-> out.frames \o r.frames, levels |-> out.levels + r.levels]
    /\ captured' = captured + n
    /\ ticks' = ticks + 1
    /\ UNCHANGED <<uiVars, micVars, loopVars>>

NextAsm == \E n \in 1..MaxBlock : Push(n)

SpecAsm == InitAsm /\ [][NextAsm]_vars

----------------------------------------------------------------------------
(* The microphone poll loop after a successful start *)

InitPoll ==
    /\ \E opt \in TargetRateOptions, lvl \in BOOLEAN, pcm \in BOOLEAN :
         pipe = [sampleBuffer |-> <<>>,
                 samplesPerFrame |-> SamplesPerFrame(ContextSampleRate),
                 sourceSampleRate |-> ContextSampleRate,
                 targetSampleRate |-> IF opt = 0 THEN DefaultTargetRate ELSE opt,
                 onLevel |-> lvl, onPcmFrame |-> pcm]
    /\ out = [frames |-> <<>>, levels |-> 0]
    /\ captured = 0
    /\ ticks = 0
    /\ InitMic
    /\ InitLoopback
    /\ InitUi

\* the interval callback of startSampling, `late` timer periods after the last
\* one: the analyser hands over its most recent FftSize samples
PollTick(late, finite) ==
    /\ ticks < MaxTicks
    /\ LET now == captured + late * ((pipe.sourceSampleRate * SampleIntervalMs) \div 1000)
           r   == ProcessAudioFrame(pipe, << <<now - FftSize, now>> >>, finite)
       IN /\ captured' = now
          /\ pipe' = r.pipe
          /\ out' = [frames |-> out.frames \o r.frames, levels |-> out.levels + r.levels]
    /\ ticks' = ticks + 1
    /\ UNCHANGED <<uiVars, micVars, loopVars>>

NextPoll == \E late \in 1..MaxLate, finite \in BOOLEAN : PollTick(late, finite)

SpecPoll == InitPoll /\ [][NextPoll]_vars

----------------------------------------------------------------------------
(* Claims about the frame assembler and the poll loop *)

\* source samples of all emitted frames, in emission order
RECURSIVE FramesSrc(_)
FramesSrc(fs) == IF fs = <<>> THEN <<>> ELSE ConcatRuns(Head(fs).src, FramesSrc(Tail(fs)))

C2_SampleContinuity ==
    Contiguous(ConcatRuns(FramesSrc(out.frames), pipe.sampleBuffer))

----------------------------------------------------------------------------
(* Claims about loopback capture *)

LoopReleased ==
    /\ lenv.listeners = {}
    /\ lenv.timers = {}
    /\ ~lb.isCapturing

\* C6: when startLoopback fails after its hidden window was created (the load
\* fails or the 10 s timeout fires), the hidden window has been destroyed, no
\* 'loopback-pcm-data' listener and no RMS timer remain, isCapturing is false.
C6_FailedLoopbackRollsBack ==
    (/\ llast.op = "continue"
     /\ lcalls[llast.call].result \in {"loadFailed", "timeout"})
    => (lenv.windows[llast.call] = "destroyed" /\ LoopReleased)

\* C7: a startLoopback whose hidden window finished loading within 10 s
\* resolves and leaves loopback capture capturing, with the PCM listener and
\* the level monitor installed; it rejects with the load timeout only when the
\* window had not finished loading within 10 s.
C7_LoadedInTimeResolves ==
    (/\ llast.op = "continue"
     /\ lcalls[llast.call].pc = "done")
    => /\ lcalls[llast.call].inTime =>
            /\ lcalls[llast.call].result = "resolved"
            /\ lb.isCapturing
            /\ lb.pcmHandler \in lenv.listeners
            /\ lb.rmsInterval \in lenv.timers
       /\ lcalls[llast.call].result = "timeout" => ~lcalls[llast.call].inTime

\* C8: stopLoopback, in any state, leaves every hidden window destroyed and
\* the reference cleared, the listener detached, the RMS timer cancelled and
\* isCapturing false; calling it again changes nothing.
C8_StopLoopbackReleasesAll ==
    llast.op = "stop" =>
        /\ \A i \in LoopIds : lenv.windows[i] \in {"none", "destroyed"}
        /\ lb.hiddenWindow = 0
        /\ lb.pcmHandler = 0
        /\ LoopReleased
        /\ StopLoopback(LoopWorld) = LoopWorld

\* C9: at each tick of the level monitor exactly one 'level' event is emitted
\* if at least one PCM frame was received since the previous tick (or the
\* monitor's start), and none if no frame was received.
C9_OneLevelPerTick ==
    llast.op = "tick" => lenv.levels = IF llast.fresh > 0 THEN 1 ELSE 0

\* C9 restricted to the ticks that find loopback capture capturing (it holds)
C9_OneLevelPerTickWhileCapturing ==
    (llast.op = "tick" /\ llast.pre.isCapturing) =>
        lenv.levels = IF llast.fresh > 0 THEN 1 ELSE 0

----------------------------------------------------------------------------
(* The hidden window's capture script (the loopback capture surface) *)

\* samples captured between two runs of processFrame: requestAnimationFrame at
\* 60 or 30 frames a second, one analyser window, a throttled hidden window
FrameGaps == {800, 1600, 2048, 4800}

\* const samplesPerFrame = Math.round(48000 * 0.1), with the script's own
\* AudioContext({ sampleRate: 48000 })
SurfaceSamplesPerFrame == Round(ContextSampleRate, FramesPerSecond)

\* the script's lines 158-175: push the analyser block; when samplesPerFrame
\* samples are buffered, slice one frame off the front and keep the rest
SurfaceAssemble(buf, block) ==
    LET all == ConcatRuns(buf, block) IN
    IF RunsLen(all) >= SurfaceSamplesPerFrame
    THEN [buffer |-> DropRuns(all, SurfaceSamplesPerFrame),
          frame  |-> <<TakeRuns(all, SurfaceSamplesPerFrame)>>]
    ELSE [buffer |-> all, frame |-> <<>>]

\* the script's lines 177-185: the inline encoder makes one int16 per source
\* sample of the frame (there is no resampling step) and sends them all
SurfaceSend(frame) == [src |-> frame, len |-> RunsLen(frame)]

InitSurface ==
    /\ pipe = [sampleBuffer |-> <<>>, samplesPerFrame |-> SurfaceSamplesPerFrame,
               sourceSampleRate |-> ContextSampleRate,
               targetSampleRate |-> DefaultTargetRate,
               onLevel |-> FALSE, onPcmFrame |-> TRUE]
    /\ out = [frames |-> <<>>, levels |-> 0]
    /\ captured = 0
    /\ ticks = 0
    /\ InitMic
    /\ InitLoopback
    /\ InitUi

\* one run of processFrame, `gap` samples after the previous one; the frame
\* it sends reaches onPcm through pcmHandler with its length unchanged
\* (new Int16Array(pcmArray), lines 219-226)
SurfaceProcessFrame(gap) ==
    /\ ticks < MaxTicks
    /\ LET now == captured + gap
           a   == SurfaceAssemble(pipe.sampleBuffer, << <<now - FftSize, now>> >>)
       IN /\ captured' = now
          /\ pipe' = [pipe EXCEPT !.sampleBuffer = a.buffer]
          /\ out' = [out EXCEPT !.frames =
                        IF a.frame = <<>> THEN @ ELSE Append(@, SurfaceSend(a.frame[1]))]
    /\ ticks' = ticks + 1
    /\ UNCHANGED <<uiVars, micVars, loopVars>>

NextSurface == \E gap \in FrameGaps : SurfaceProcessFrame(gap)

SpecSurface == InitSurface /\ [][NextSurface]_vars

\* the microphone pipeline's configuration at the default target rate
MicPipeDefault ==
    [sampleBuffer |-> <<>>, samplesPerFrame |-> SamplesPerFrame(ContextSampleRate),
     sourceSampleRate |-> ContextSampleRate, targetSampleRate |-> DefaultTargetRate,
     onLevel |-> TRUE, onPcmFrame |-> TRUE]

\* length of the frame the microphone pipeline makes of the source samples src
MicFrameLength(src) ==
    LET f == EmitFrame(MicPipeDefault, src) IN IF f = <<>> THEN 0 ELSE f[1].len

\* C11: every PCM frame the loopback surface sends to the host (and the host
\* passes to onPcm) has the length of the frame the microphone pipeline makes
\* of the same 100 ms of samples: 1600 samples at 16 kHz.
C11_LoopbackFrameAsMic ==
    \A i \in 1..Len(out.frames) :
        /\ out.frames[i].len = MicFrameLength(out.frames[i].src)
        /\ out.frames[i].len = Round(DefaultTargetRate, FramesPerSecond)

----------------------------------------------------------------------------
(* More claims about the frame assembler and the poll loop *)

\* the frames emitted by the step from this state to the next
NewFrames == SubSeq(out'.frames, Len(out.frames) + 1, Len(out'.frames))

C13_ResidualBelowFrame ==
    RunsLen(pipe.sampleBuffer) < pipe.samplesPerFrame

\* a poll tick has emitted a frame and left a residual in the buffer
C13_Witness ==
    /\ ticks >= 3
    /\ Len(out.frames) >= 1
    /\ pipe.sampleBuffer # <<>>

----------------------------------------------------------------------------
(* The start operations of both capture sources, side by side *)

NextStarts ==
    \/ \E i \in CallIds : MicStart(i)
    \/ \E i \in CallIds, o \in GetUserMediaOutcomes : MicGetUserMediaSettles(i, o)
    \/ \E i \in CallIds, o \in ResumeOutcomes : MicResumeSettles(i, o)
    \/ \E i \in LoopIds : LbStart(i)
    \/ \E i \in LoopIds, inTime \in BOOLEAN : LbLoadResolves(i, inTime)
    \/ \E i \in LoopIds : LbLoadRejects(i)
    \/ \E i \in LoopIds : LbReadyFires(i)
    \/ \E i \in LoopIds : LbReadyTimeout(i)

SpecStarts == Init /\ [][NextStarts]_vars

\* the last MicCapture.start found the capture capturing and ...
MicStartRestarted == calls[last.call].pc # "done" /\ ~mic.isCapturing

MicStartRefused == calls[last.call].pc = "done" /\ calls[last.call].result = "rejected"

\* the last startLoopback found loopback capture capturing and ...
LoopStartRestarted == lcalls[llast.call].pc # "done" /\ ~lb.isCapturing

LoopStartRefused ==
    lcalls[llast.call].pc = "done" /\ lcalls[llast.call].result = "alreadyRunning"

\* C14: start on an already-capturing capture source follows one policy in
\* both variants: MicCapture.start and startLoopback either both stop and
\* restart, or both fail with an already-capturing error.
C14_OneRestartPolicy ==
    (/\ last.op = "start" /\ last.pre.isCapturing
     /\ llast.op = "start" /\ llast.pre.isCapturing)
    => \/ MicStartRestarted /\ LoopStartRestarted
       \/ MicStartRefused /\ LoopStartRefused

----------------------------------------------------------------------------
(* Either capture source on its own *)

\* The two sources share no state (every action of one leaves the other's
\* variables unchanged), so a behaviour here runs one of them from the start:
\* the microphone while loopback capture is untouched, or the reverse.
MicUntouched == mic = MicNew /\ env = EnvNew /\ calls = CallsNew /\ last = LastNone

LoopUntouched == lb = LbNew /\ lenv = LenvNew /\ lcalls = LcallsNew /\ llast = LlastNone

NextEither ==
    \/ LoopUntouched /\ NextMic
    \/ MicUntouched /\ NextLoop

SpecEither == Init /\ [][NextEither]_vars

\* no start() call is suspended and the microphone is not capturing
MicIdle == ~mic.isCapturing /\ \A i \in CallIds : calls[i].pc \in {"new", "done"}

\* no startLoopback() call is suspended and loopback capture is not capturing
LoopIdle == ~lb.isCapturing /\ \A i \in LoopIds : lcalls[i].pc \in {"new", "done"}

\* C15: stop() on an idle capture is a no-op: MicCapture.stop() and
\* stopLoopback() called when nothing is capturing (and no start is under way)
\* leave isCapturing, stream, context, nodes, timers, hidden window and
\* listeners as they were.
C15_StopIdleNoOp ==
    /\ MicIdle => Stop(World) = World
    /\ LoopIdle => StopLoopback(LoopWorld) = LoopWorld

\* MicCapture.stop() has just run on a capture that was idle after a start
C15_Witness ==
    /\ MicIdle /\ last.op = "stop" /\ ~last.pre.isCapturing /\ mic = last.pre
    /\ \E i \in CallIds : calls[i].pc = "done"

\* stopLoopback() has just run on a loopback capture that was idle after a start
C15_WitnessLoopback ==
    /\ LoopIdle /\ llast.op = "stop" /\ ~llast.pre.isCapturing /\ lb = llast.pre
    /\ \E i \in LoopIds : lcalls[i].pc = "done"

----------------------------------------------------------------------------
(* The Session component and SessionController: starting and stopping a session *)

\* updateAudioStats, lines 101-117: a capturing microphone turns the status to
\* 'Capturing' unless it is 'Error'
UpdateAudioStats(u, capturing) ==
    IF capturing /\ u.micStatus # "Error" THEN [u EXCEPT !.micStatus = "Capturing"] ELSE u

\* the catch of handleStart, lines 143-159
HandleStartCatch(u) ==
    [u EXCEPT !.micStatus = "Error", !.isRecording = FALSE, !.currentSessionId = FALSE,
              !.errorMessage = TRUE, !.pc = "idle", !.startSession = "rejected"]

\* handleStart, lines 130-134, up to the await of db.createSession() in
\* startSession (line 20); the Start button is enabled while not recording.
\* One handleStart at a time is explored.
SessHandleStart ==
    /\ ~ui.isRecording
    /\ ui.pc = "idle"
    /\ \E i \in CallIds : calls[i].pc = "new"
    /\ ui' = [ui EXCEPT !.micStatus = "Requesting permission", !.errorMessage = FALSE,
                        !.pc = "awaitCreate", !.startSession = "pending", !.op = "start"]
    /\ UNCHANGED <<sess, dbm, gen, pipeVars, micVars, loopVars>>

\* db.createSession() settles: startSession goes on to micCapture.start(..)
\* (lines 21-37, call i), or rejects and handleStart's catch runs
SessCreateSessionSettles(i, ok) ==
    /\ ui.pc = "awaitCreate"
    /\ calls[i].pc = "new"
    /\ \A j \in CallIds : j < i => calls[j].pc # "new"
    /\ IF ok
       THEN /\ LET w1 == StartBegins(World, i) IN
                 /\ mic' = w1.mic
                 /\ env' = w1.env
            /\ calls' = [calls EXCEPT ![i].pc = "awaitGUM"]
            /\ last' = [op |-> "start", call |-> i, pre |-> mic]
            /\ ui' = [ui EXCEPT !.pc = "awaitMic", !.call = i, !.op = "created"]
       ELSE /\ ui' = [HandleStartCatch(ui) EXCEPT !.op = "createFailed"]
            /\ UNCHANGED micVars
    /\ UNCHANGED <<sess, dbm, gen, pipeVars, loopVars>>

\* micCapture.start(..) has settled: resolved, or rejected into the catch of
\* lines 38-42, which only logs.  startSession returns the session id (line
\* 44); handleStart sets the session id and isRecording (lines 136-137), and
\* the effect of lines 94-128 calls updateAudioStats at once.
SessMicStartSettles ==
    /\ ui.pc = "awaitMic"
    /\ calls[ui.call].pc = "done"
    /\ ui' = UpdateAudioStats([ui EXCEPT !.currentSessionId = TRUE, !.isRecording = TRUE,
                                         !.pc = "idle", !.startSession = "resolved",
                                         !.op = "started"],
                              mic.isCapturing)
    /\ UNCHANGED <<sess, dbm, gen, pipeVars, micVars, loopVars>>

\* the 100 ms interval of the effect, line 123
SessStatsPoll ==
    /\ ui.isRecording
    /\ ui' = [UpdateAudioStats(ui, mic.isCapturing) EXCEPT !.op = "poll"]
    /\ UNCHANGED <<sess, dbm, gen, pipeVars, micVars, loopVars>>

\* handleStop, lines 162-175: stopSession stops the microphone (line 56) and
\* awaits db.endSession; when that resolves isRecording goes false and the
\* effect sets the status to 'Idle' (line 96); when it rejects the catch logs
SessHandleStop(ok) ==
    /\ ui.isRecording
    /\ ui.currentSessionId
    /\ ui.pc = "idle"
    /\ LET r == Stop(World) IN
         /\ mic' = r.mic
         /\ env' = r.env
    /\ calls' = CallsAfterStop(calls)
    /\ last' = [op |-> "stop", call |-> 0, pre |-> mic]
    /\ ui' = IF ok
             THEN [ui EXCEPT !.currentSessionId = FALSE, !.isRecording = FALSE,
                             !.errorMessage = FALSE, !.micStatus = "Idle", !.op = "stop"]
             ELSE [ui EXCEPT !.op = "stop"]
    /\ UNCHANGED <<sess, dbm, gen, pipeVars, loopVars>>

NextSession ==
    \/ SessHandleStart
    \/ \E i \in CallIds, ok \in BOOLEAN : SessCreateSessionSettles(i, ok)
    \/ \E i \in CallIds, o \in GetUserMediaOutcomes : MicGetUserMediaSettles(i, o)
    \/ \E i \in CallIds, o \in ResumeOutcomes : MicResumeSettles(i, o)
    \/ SessMicStartSettles
    \/ SessStatsPoll
    \/ \E ok \in BOOLEAN : SessHandleStop(ok)
    \/ \E t \in CallIds, finite \in BOOLEAN : MicPollTick(t, finite)

SpecSession == Init /\ [][NextSession]_vars

\* C16: when getUserMedia rejects during session start (permission denied, no
\* microphone), the failure reaches the UI: startSession rejects and, once
\* handleStart is through, the mic status is 'Error' with an error message.
C16_MicFailureSurfaced ==
    (/\ ui.op = "started"
     /\ calls[ui.call].result = "rejected"
     /\ env.streams[ui.call] = "none")
    => /\ ui.startSession = "rejected"
       /\ ui.micStatus = "Error"
       /\ ui.errorMessage

----------------------------------------------------------------------------
(* Callbacks after a stop *)

\* stop() has returned and start() has not been called since
MicStoppedSince ==
    /\ \E i \in CallIds : calls[i].stopAfter
    /\ \A i \in CallIds : calls[i].pc # "new" => calls[i].stopAfter

\* stopLoopback() has returned and startLoopback() has not been called since
LoopStoppedSince ==
    /\ \E i \in LoopIds : lcalls[i].stopAfter
    /\ \A i \in LoopIds : lcalls[i].pc # "new" => lcalls[i].stopAfter

\* C17: after MicCapture.stop() or stopLoopback() has returned, and until the
\* next start, no poll tick invokes the level or PCM frame callback, no
\* monitor tick emits a 'level' event and no PCM message reaches onPcm.
C17_SilentAfterStop ==
    /\ (last.op = "tick" /\ MicStoppedSince) => env.invoked = 0
    /\ (llast.op = "tick" /\ LoopStoppedSince) => lenv.levels = 0
    /\ (llast.op = "pcm" /\ LoopStoppedSince) => lenv.delivered = 0

\* C17 when no stop found a start suspended and no start failed
C17_SilentAfterOrderlyStop ==
    /\ (/\ last.op = "tick" /\ MicStoppedSince
        /\ \A i \in CallIds : ~calls[i].stopped /\ calls[i].result # "rejected")
       => env.invoked = 0
    /\ (/\ LoopStoppedSince
        /\ \A i \in LoopIds : ~lcalls[i].stopped /\ lcalls[i].result \in {"none", "resolved"})
       => /\ llast.op = "tick" => lenv.levels = 0
          /\ llast.op = "pcm" => lenv.delivered = 0

----------------------------------------------------------------------------
(* The level monitor of loopback capture *)

\* C18: the level emitted at a monitor tick is that of the most recent PCM
\* frame received since the previous tick: a tick emits a level only when a
\* frame was received since the previous tick (so no frame's level is emitted
\* twice), and it is the level of the latest one (so the frames before it in
\* the interval never get a level event).
C18_LastValueWins ==
    (llast.op = "tick" /\ lenv.levels = 1) =>
        /\ llast.fresh > 0
        /\ llast.pre.lastPcmBuffer = lenv.pcmSent
        /\ lb.lastPcmBuffer = 0

\* a tick has emitted the level of the second of two frames received since
\* the previous tick
C18_Witness ==
    /\ llast.op = "tick"
    /\ lenv.levels = 1
    /\ llast.fresh >= 2
    /\ llast.pre.lastPcmBuffer = 2

----------------------------------------------------------------------------
(* The frame assembler at the microphone's rates: pushes of real sizes *)

\* block sizes pushed: one poll period, a target-rate frame, one analyser
\* window, one source-rate frame, two of them
PushSizes == {480, 1600, 2048, 4800, 9600}

InitPush ==
    /\ pipe = [sampleBuffer |-> <<>>,
               samplesPerFrame |-> SamplesPerFrame(ContextSampleRate),
               sourceSampleRate |-> ContextSampleRate,
               targetSampleRate |-> DefaultTargetRate,
               onLevel |-> TRUE, onPcmFrame |-> TRUE]
    /\ out = [frames |-> <<>>, levels |-> 0]
    /\ captured = 0
    /\ ticks = 0
    /\ InitMic
    /\ InitLoopback
    /\ InitUi

NextPush == \E n \in PushSizes : Push(n)

SpecPush == InitPush /\ [][NextPush]_vars

\* C19: one push of exactly 4800 samples (one frame's worth at 48 kHz) into an
\* empty assembler with target rate 16000 Hz yields exactly one frame, of 1600
\* int16 samples made of those 4800, and leaves 0 samples in the buffer.
C19_OneFrameEndToEnd ==
    (ticks = 1 /\ captured = SamplesPerFrame(ContextSampleRate)) =>
        /\ Len(out.frames) = 1
        /\ out.frames[1].len = 1600
        /\ out.frames[1].src = << <<0, 4800>> >>
        /\ RunsLen(pipe.sampleBuffer) = 0

\* the single push of 4800 samples has been made
C19_Witness ==
    /\ ticks = 1
    /\ captured = 4800
    /\ pipe.sourceSampleRate = 48000
    /\ pipe.targetSampleRate = 16000
    /\ Len(out.frames) = 1

----------------------------------------------------------------------------
(* The RMS, resample and encode routines on valid and invalid input *)

\* An input block is its length and the index of a non-finite sample in it
\* (NaN or an infinity), 0 when every sample is finite.
RateInputs == {-48000, 0, 16000, 48000}

\* calculateRMS of audioUtils, lines 682-713
CalculateRMSRaises(len, bad) == CalculateRMSThrows(len, bad = 0)

\* the source samples downsample reads: its windows end at
\* Math.round(newLength * sampleRateRatio), or at the block's end
DownsampleReads(len, src, tgt) ==
    LET newLength == Round(len * tgt, src)
        end       == Round(newLength * src, tgt)
    IN IF end < len THEN end ELSE len

\* downsample, lines 722-790: the checks of lines 727-755; equal rates return
\* the block as it is (line 743); a non-finite sample is an error when a
\* window reads it (lines 767-771)
DownsampleRaises(len, bad, src, tgt) ==
    \/ DownsampleThrows(len, src, tgt)
    \/ /\ src # tgt
       /\ bad # 0
       /\ bad <= DownsampleReads(len, src, tgt)

\* floatToInt16, lines 797-825
FloatToInt16Raises(len, bad) == len = 0 \/ bad # 0

\* calculateRMS of the loopback module, lines 21-37: 0 for an empty buffer,
\* no check of the values
LoopbackCalculateRMSRaises(len, bad) == FALSE

\* the hidden window's inline encoder, lines 177-182 of the loopback module:
\* Math.round(NaN) stored in an Int16Array is 0, nothing is checked
SurfaceEncodeRaises(len, bad) == FALSE

InitUtils ==
    /\ \E len \in 0..MaxBlock, src \in RateInputs, tgt \in RateInputs :
         \E bad \in 0..len :
           pipe = [len |-> len, bad |-> bad, sourceSampleRate |-> src,
                   targetSampleRate |-> tgt]
    /\ out = [calculateRMS |-> "none", downsample |-> "none", floatToInt16 |-> "none",
              loopbackCalculateRMS |-> "none", surfaceEncode |-> "none"]
    /\ captured = 0
    /\ ticks = 0
    /\ InitMic
    /\ InitLoopback
    /\ InitUi

\* every routine is called on the input
ApplyUtils ==
    /\ ticks = 0
    /\ LET Outcome(raises) == IF raises THEN "raises" ELSE "returns" IN
       out' = [calculateRMS |-> Outcome(CalculateRMSRaises(pipe.len, pipe.bad)),
               downsample   |-> Outcome(DownsampleRaises(pipe.len, pipe.bad,
                                                         pipe.sourceSampleRate,
                                                         pipe.targetSampleRate)),
               floatToInt16 |-> Outcome(FloatToInt16Raises(pipe.len, pipe.bad)),
               loopbackCalculateRMS |->
                   Outcome(LoopbackCalculateRMSRaises(pipe.len, pipe.bad)),
               surfaceEncode |-> Outcome(SurfaceEncodeRaises(pipe.len, pipe.bad))]
    /\ ticks' = 1
    /\ UNCHANGED <<pipe, captured, micVars, loopVars, uiVars>>

NextUtils == ApplyUtils

SpecUtils == InitUtils /\ [][NextUtils]_vars

\* the block is empty or holds a non-finite sample
InvalidBlock == pipe.len = 0 \/ pipe.bad # 0

\* a sample rate is zero or negative
InvalidRate == pipe.sourceSampleRate <= 0 \/ pipe.targetSampleRate <= 0

\* C20: every RMS, resample and PCM16-encode routine of the pipeline raises an
\* error on an empty block or a non-finite sample, and the resampler on a zero
\* or negative rate as well; none returns a value for such input.
C20_InvalidInputRaises ==
    ticks = 1 =>
        /\ InvalidBlock =>
              /\ out.calculateRMS = "raises"
              /\ out.downsample = "raises"
              /\ out.floatToInt16 = "raises"
              /\ out.loopbackCalculateRMS = "raises"
              /\ out.surfaceEncode = "raises"
        /\ InvalidRate => out.downsample = "raises"

\* C20 for calculateRMS and floatToInt16 of audioUtils, and for the resampler's
\* checks of its rates and of an empty block
C20_AudioUtilsRaise ==
    ticks = 1 =>
        /\ InvalidBlock => (out.calculateRMS = "raises" /\ out.floatToInt16 = "raises")
        /\ (InvalidRate \/ pipe.len = 0) => out.downsample = "raises"

----------------------------------------------------------------------------
(* PCM16 encoding of one sample *)

\* A float sample is a fraction [num, den]; the samples explored are the
\* multiples of the int16 normalisation step 1 / 32768 in [-2, 2].  The
\* products and quotients below are exact in the code's double arithmetic.
Int16Scale == 32768

Int16Max == 32767

Int16Min == -32768

FloatInputs == {[num |-> n, den |-> Int16Scale] : n \in (-2 * Int16Scale)..(2 * Int16Scale)}

\* int16 -> float as the loopback module normalises it: value / 32768
Int16ToFloat(v) == [num |-> v, den |-> Int16Scale]

\* a mutation of FloatToInt16Sample: the sample is not clamped to [-1, 1]
FloatToInt16SampleNoClamp(x) == (x.num * Int16Max + x.den \div 2) \div x.den

\* floatToInt16, lines 813-816, on the sample x:
\* Math.round(Math.max(-1, Math.min(1, value)) * 32767)
FloatToInt16Sample(x) ==
    LET s == IF x.num > x.den THEN [num |-> 1, den |-> 1]
             ELSE IF x.num < -x.den THEN [num |-> -1, den |-> 1] ELSE x
    IN Round(s.num * Int16Max, s.den)

\* the check of lines 818-820 on the value about to be stored
FloatToInt16RangeThrows(intValue) == intValue < Int16Min \/ intValue > Int16Max

InitPcm16 ==
    /\ \E x \in FloatInputs : pipe = [value |-> x]
    /\ out = [value |-> 0, result |-> "none"]
    /\ captured = 0
    /\ ticks = 0
    /\ InitMic
    /\ InitLoopback
    /\ InitUi

\* floatToInt16 on a block holding the one sample
EncodeSample ==
    /\ ticks = 0
    /\ LET v == FloatToInt16Sample(pipe.value) IN
       out' = [value |-> v,
               result |-> IF FloatToInt16RangeThrows(v) THEN "raises" ELSE "returns"]
    /\ ticks' = 1
    /\ UNCHANGED <<pipe, captured, micVars, loopVars, uiVars>>

NextPcm16 == EncodeSample

SpecPcm16 == InitPcm16 /\ [][NextPcm16]_vars

\* C21: for every integer v in [-32768, 32767], floatToInt16 of the float
\* v / 32768 is an integer within 1 of v; and whatever the sample, the encoder
\* returns a value inside [-32768, 32767].
C21_Pcm16RoundTrip ==
    ticks = 1 =>
        /\ out.result = "returns"
        /\ out.value >= Int16Min /\ out.value <= Int16Max
        /\ (pipe.value.num >= Int16Min /\ pipe.value.num <= Int16Max) =>
              /\ pipe.value = Int16ToFloat(pipe.value.num)
              /\ out.value - pipe.value.num \in {-1, 0, 1}

\* the most negative int16 has made the round trip and come back one off
C21_Witness ==
    /\ ticks = 1
    /\ pipe.value = Int16ToFloat(Int16Min)
    /\ out.value = Int16Min + 1

----------------------------------------------------------------------------
(* downsample on blocks of samples *)

\* longest block given to downsample
MaxSamples == 6

\* the sample values explored
SampleValues == {-1, 0, 2}

\* <<sourceSampleRate, targetSampleRate>> pairs explored: the product's 3:1,
\* 6:1 and a fractional ratio, a ratio just above 1, equal rates, and a
\* target above the source (the function does not reject it)
RatePairs == {<<48000, 16000>>, <<48000, 8000>>, <<44100, 16000>>, <<48000, 44100>>,
              <<48000, 48000>>, <<16000, 48000>>}

\* blocks of 1 .. n samples
BlocksUpTo(n) == UNION {[1..k -> SampleValues] : k \in 1..n}

\* lines 765-773: the for loop over the source indices i (0-based) of one
\* window, from offsetSource up to nextOffsetSource or the block's end
RECURSIVE WindowLoop(_, _, _, _, _)
WindowLoop(x, i, nextOffsetSource, accum, count) ==
    IF i < nextOffsetSource /\ i < Len(x)
    THEN WindowLoop(x, i + 1, nextOffsetSource, accum + x[i + 1], count + 1)
    ELSE [accum |-> accum, count |-> count]

\* lines 762-787: the while loop over the output indices; an output sample is
\* kept as the sum and the count of its window (accum / count in the code, 0
\* when count is 0)
RECURSIVE OutputLoop(_, _, _, _, _, _, _)
OutputLoop(x, src, tgt, newLength, offsetResult, offsetSource, result) ==
    IF offsetResult < newLength
    THEN LET nextOffsetSource == Round((offsetResult + 1) * src, tgt)
             w == WindowLoop(x, offsetSource, nextOffsetSource, 0, 0)
         IN OutputLoop(x, src, tgt, newLength, offsetResult + 1, nextOffsetSource,
                       Append(result, [sum |-> w.accum, count |-> w.count]))
    ELSE result

\* downsample, lines 722-790, on a block of finite samples
Downsample(x, src, tgt) ==
    IF DownsampleThrows(Len(x), src, tgt)
    THEN [result |-> "raises", samples |-> <<>>]
    ELSE IF src = tgt
    THEN [result |-> "returns", samples |-> [j \in 1..Len(x) |-> [sum |-> x[j], count |-> 1]]]
    ELSE [result |-> "returns",
          samples |-> OutputLoop(x, src, tgt, DownsampleLength(Len(x), src, tgt), 0, 0, <<>>)]

InitResample ==
    /\ \E x \in BlocksUpTo(MaxSamples), r \in RatePairs :
         pipe = [x |-> x, sourceSampleRate |-> r[1], targetSampleRate |-> r[2]]
    /\ out = [result |-> "none", samples |-> <<>>]
    /\ captured = 0
    /\ ticks = 0
    /\ InitMic
    /\ InitLoopback
    /\ InitUi

\* downsample is called on the block
ApplyDownsample ==
    /\ ticks = 0
    /\ out' = Downsample(pipe.x, pipe.sourceSampleRate, pipe.targetSampleRate)
    /\ ticks' = 1
    /\ UNCHANGED <<pipe, captured, micVars, loopVars, uiVars>>

NextResample == ApplyDownsample

SpecResample == InitResample /\ [][NextResample]_vars

\* round(len(x) * targetRate / sourceRate) for the block given
ClaimedLength == Round(Len(pipe.x) * pipe.targetSampleRate, pipe.sourceSampleRate)

Window(i) ==
    {j \in 0..(Len(pipe.x) - 1) :
        /\ j >= Round(i * pipe.sourceSampleRate, pipe.targetSampleRate)
        /\ j < Round((i + 1) * pipe.sourceSampleRate, pipe.targetSampleRate)}

RECURSIVE SumOver(_)
SumOver(js) ==
    IF js = {} THEN 0
    ELSE LET j == CHOOSE k \in js : TRUE IN pipe.x[j + 1] + SumOver(js \ {j})

\* output sample i is the mean of its window, 0 for an empty window
MeanOfWindow(i) ==
    out.samples[i + 1] = [sum |-> SumOver(Window(i)), count |-> Cardinality(Window(i))]

C23_BoxFilterDownward ==
    (ticks = 1 /\ out.result = "returns"
       /\ pipe.sourceSampleRate >= pipe.targetSampleRate) =>
        \A i \in 0..(Len(out.samples) - 1) :
            /\ MeanOfWindow(i)
            /\ Window(i) = {} => i = Len(out.samples) - 1

----------------------------------------------------------------------------
(* More claims about the MicCapture life cycle *)

\* C24: in every reachable state of MicCapture, isCapturing implies that a
\* media stream, an audio context, an analyser node and an active poll timer
\* are held, also after an overlapping start() call has failed.
C24_CapturingHoldsResources ==
    mic.isCapturing =>
        /\ mic.mediaStream # 0 /\ env.streams[mic.mediaStream] = "live"
        /\ mic.audioContext # 0 /\ env.contexts[mic.audioContext] # "closed"
        /\ mic.analyserNode # 0
        /\ mic.sampleIntervalId # 0 /\ mic.sampleIntervalId \in env.timers

\* C24 while no start() call has failed
C24_CapturingHoldsResourcesNoFailure ==
    (mic.isCapturing /\ \A i \in CallIds : calls[i].result # "rejected") =>
        /\ mic.mediaStream # 0 /\ env.streams[mic.mediaStream] = "live"
        /\ mic.audioContext # 0 /\ env.contexts[mic.audioContext] # "closed"
        /\ mic.analyserNode # 0
        /\ mic.sampleIntervalId # 0 /\ mic.sampleIntervalId \in env.timers

\* the media streams with live tracks, the audio contexts not closed
LiveStreams == {i \in CallIds : env.streams[i] = "live"}

OpenContexts == {i \in CallIds : env.contexts[i] \in {"suspended", "running"}}

\* C25: every media stream and audio context a start() call acquired has been
\* stopped / closed when a later stop() returns, and at most one of each is
\* live at any time, also when two start() calls overlap on the permission
\* request.
C25_NoLeakedResources ==
    /\ Cardinality(LiveStreams) <= 1
    /\ Cardinality(OpenContexts) <= 1
    /\ last.op = "stop" => (LiveStreams = {} /\ OpenContexts = {})

----------------------------------------------------------------------------
(* SessionController and the sessions table, driven by the Session component *)

SessLastNone == [op |-> "none", h |-> 0, micFailed |-> FALSE]

\* the handleStart call whose startSession made the start() call i
HandleOf(i) == CHOOSE h \in SessIds : sess.starts[h].call = i

\* startSession, lines 46-50, and handleStart's catch, lines 143-147, for call h
StartSessionRejects(x, h) ==
    [x EXCEPT !.currentSessionId = 0, !.framesCaptured = 0, !.lastLevel = 0,
              !.view = [isRecording |-> FALSE, currentSessionId |-> 0],
              !.starts[h].pc = "done",
              !.last = [op |-> "startFailed", h |-> h, micFailed |-> FALSE]]

\* startSession, lines 38-44, once micCapture.start() has settled (a rejection
\* is logged), and handleStart, lines 136-137, for call h
StartSessionReturns(x, h, micFailed) ==
    [x EXCEPT !.view = [isRecording |-> TRUE, currentSessionId |-> h],
              !.starts[h].pc = "done",
              !.last = [op |-> "started", h |-> h, micFailed |-> micFailed]]

\* stopSession, lines 58-61, for session id; the call keeps what it found
StopSessionBegins(x, id, capturing) ==
    [x EXCEPT !.stop = [pc |-> "awaitEnd", session |-> id, isCapturing |-> capturing,
                        currentSessionId |-> x.currentSessionId,
                        framesCaptured |-> x.framesCaptured, lastLevel |-> x.lastLevel],
              !.framesCaptured = 0, !.lastLevel = 0, !.currentSessionId = 0,
              !.last = SessLastNone]

\* handleStart, lines 130-134, call h, up to the await of db.createSession();
\* the Start button is enabled while isRecording is false
CtlHandleStart(h) ==
    /\ ~sess.view.isRecording
    /\ sess.starts[h].pc = "new"
    /\ \A g \in SessIds : g < h => sess.starts[g].pc # "new"
    /\ \E i \in CallIds : calls[i].pc = "new"
    /\ LET busy == {g \in SessIds : sess.starts[g].pc \in {"awaitCreate", "awaitMic"}} IN
       sess' = [sess EXCEPT
                  !.starts = [g \in SessIds |->
                                IF g = h THEN [pc |-> "awaitCreate", call |-> 0,
                                               overlapped |-> busy # {}]
                                ELSE IF g \in busy THEN [@[g] EXCEPT !.overlapped = TRUE]
                                ELSE @[g]],
                  !.last = SessLastNone]
    /\ UNCHANGED <<ui, dbm, gen, pipeVars, micVars, loopVars>>

\* db.createSession() of call h settles.  Resolved: the row is in the table
\* with status RUNNING (main.js 345-352), startSession sets currentSessionId,
\* zeroes the stats and calls micCapture.start (lines 21-37, start() call i).
\* Rejected: no row; startSession's and handleStart's catch blocks run.
CtlCreateSessionSettles(h, i, ok) ==
    /\ sess.starts[h].pc = "awaitCreate"
    /\ IF ok
       THEN /\ calls[i].pc = "new"
            /\ \A j \in CallIds : j < i => calls[j].pc # "new"
            /\ LET w1 == StartBegins(World, i) IN
                 /\ mic' = w1.mic
                 /\ env' = w1.env
            /\ calls' = [calls EXCEPT ![i].pc = "awaitGUM"]
            /\ last' = [op |-> "start", call |-> i, pre |-> mic]
            /\ sess' = [sess EXCEPT !.store[h] = "RUNNING",
                                    !.currentSessionId = h,
                                    !.framesCaptured = 0, !.lastLevel = 0,
                                    !.starts[h].pc = "awaitMic", !.starts[h].call = i,
                                    !.last = SessLastNone]
       ELSE /\ i = 1
            /\ sess' = StartSessionRejects(sess, h)
            /\ UNCHANGED micVars
    /\ UNCHANGED <<ui, dbm, gen, pipeVars, loopVars>>

\* getUserMedia of start() call i settles; when the call ends with it,
\* startSession and handleStart run on in the same turn
CtlGetUserMediaSettles(i, o) ==
    /\ calls[i].pc = "awaitGUM"
    /\ \E h \in SessIds : sess.starts[h].call = i
    /\ LET r == AfterGetUserMedia(World, i, o) IN
         /\ mic' = r.w.mic
         /\ env' = r.w.env
         /\ calls' = [calls EXCEPT ![i].pc = r.pc, ![i].result = r.result]
         /\ sess' = IF r.pc = "done"
                    THEN StartSessionReturns(sess, HandleOf(i), r.result = "rejected")
                    ELSE [sess EXCEPT !.last = SessLastNone]
    /\ last' = [op |-> "continue", call |-> i, pre |-> mic]
    /\ UNCHANGED <<ui, dbm, gen, pipeVars, loopVars>>

\* audioContext.resume() of start() call i settles; startSession and
\* handleStart run on in the same turn
CtlResumeSettles(i, o) ==
    /\ calls[i].pc = "awaitResume"
    /\ \E h \in SessIds : sess.starts[h].call = i
    /\ LET r == AfterResume(World, i, o) IN
         /\ mic' = r.w.mic
         /\ env' = r.w.env
         /\ calls' = [calls EXCEPT ![i].pc = r.pc, ![i].result = r.result]
         /\ sess' = StartSessionReturns(sess, HandleOf(i), r.result = "rejected")
    /\ last' = [op |-> "continue", call |-> i, pre |-> mic]
    /\ UNCHANGED <<ui, dbm, gen, pipeVars, loopVars>>

\* the poll tick of the active interval t; the callbacks startSession passed
\* (lines 30-36) set lastLevel and count the frame
CtlPollTick(t, finite) ==
    /\ t \in env.timers
    /\ env.polls < MaxMicTicks
    /\ IF ~mic.isCapturing \/ mic.analyserNode = 0 \/ mic.audioContext = 0
       THEN /\ mic' = mic
            /\ env' = [env EXCEPT !.polls = @ + 1, !.invoked = 0]
            /\ sess' = [sess EXCEPT !.last = SessLastNone]
       ELSE LET p == [sampleBuffer |-> mic.sampleBuffer,
                      samplesPerFrame |-> mic.samplesPerFrame,
                      sourceSampleRate |-> mic.sourceSampleRate,
                      targetSampleRate |-> mic.targetSampleRate,
                      onLevel |-> mic.onLevelCallback # 0,
                      onPcmFrame |-> mic.onPcmFrameCallback # 0]
                r == ProcessAudioFrame(p, << <<0, FftSize>> >>, finite)
            IN /\ mic' = [mic EXCEPT !.sampleBuffer = r.pipe.sampleBuffer]
               /\ env' = [env EXCEPT !.polls = @ + 1,
                                     !.invoked = r.levels + Len(r.frames)]
               /\ sess' = [sess EXCEPT
                             !.lastLevel = IF r.levels > 0 THEN 1 ELSE @,
                             !.framesCaptured = @ + Len(r.frames),
                             !.last = SessLastNone]
    /\ last' = [op |-> "tick", call |-> t, pre |-> mic, finite |-> finite]
    /\ UNCHANGED <<ui, dbm, gen, calls, pipeVars, loopVars>>

\* handleStop, lines 162-165, up to the await of db.endSession in stopSession:
\* the microphone is stopped, the stats and currentSessionId are reset.  The
\* Stop button is enabled while isRecording; one handleStop at a time is
\* explored.
CtlHandleStop ==
    /\ sess.view.isRecording
    /\ sess.view.currentSessionId # 0
    /\ sess.stop.pc = "idle"
    /\ LET r == Stop(World) IN
         /\ mic' = r.mic
         /\ env' = r.env
    /\ calls' = CallsAfterStop(calls)
    /\ last' = [op |-> "stop", call |-> 0, pre |-> mic]
    /\ sess' = StopSessionBegins(sess, sess.view.currentSessionId, mic.isCapturing)
    /\ UNCHANGED <<ui, dbm, gen, pipeVars, loopVars>>

\* db.endSession settles.  Resolved: the row has status COMPLETED and endedAt
\* (main.js 374-379) and handleStop clears the session id and isRecording
\* (lines 166-167).  Rejected: handleStop's catch logs.
CtlEndSessionSettles(ok) ==
    /\ sess.stop.pc = "awaitEnd"
    /\ sess' = IF ok
               THEN [sess EXCEPT !.store[sess.stop.session] = "COMPLETED",
                                 !.view = [isRecording |-> FALSE, currentSessionId |-> 0],
                                 !.stop.pc = "idle",
                                 !.last = [op |-> "ended", h |-> sess.stop.session,
                                           micFailed |-> FALSE]]
               ELSE [sess EXCEPT !.stop.pc = "idle",
                                 !.last = [op |-> "endFailed", h |-> sess.stop.session,
                                           micFailed |-> FALSE]]
    /\ UNCHANGED <<ui, dbm, gen, pipeVars, micVars, loopVars>>

NextCtl ==
    \/ \E h \in SessIds : CtlHandleStart(h)
    \/ \E h \in SessIds, i \in CallIds, ok \in BOOLEAN : CtlCreateSessionSettles(h, i, ok)
    \/ \E i \in CallIds, o \in GetUserMediaOutcomes : CtlGetUserMediaSettles(i, o)
    \/ \E i \in CallIds, o \in ResumeOutcomes : CtlResumeSettles(i, o)
    \/ \E t \in CallIds, finite \in BOOLEAN : CtlPollTick(t, finite)
    \/ CtlHandleStop
    \/ \E ok \in BOOLEAN : CtlEndSessionSettles(ok)

SpecCtl == Init /\ [][NextCtl]_vars

\* C26: startSession resolves with the new session id whenever
\* db.createSession succeeded, even when the microphone start failed; then
\* currentSessionId is the new id, the stats are zero and the microphone is
\* not capturing.
C26_SessionSurvivesMicFailure ==
    /\ \A h \in SessIds :
          (sess.starts[h].pc = "done" /\ sess.starts[h].call # 0) =>
              sess.store[h] # "none"
    /\ (sess.last.op = "started" /\ sess.last.micFailed) =>
          /\ sess.view.currentSessionId = sess.last.h
          /\ sess.currentSessionId = sess.last.h
          /\ sess.framesCaptured = 0 /\ sess.lastLevel = 0
          /\ ~mic.isCapturing

\* C26 for a startSession call that no other call overlapped
C26_SessionSurvivesMicFailureAlone ==
    (sess.last.op = "started" /\ sess.last.micFailed
       /\ ~sess.starts[sess.last.h].overlapped) =>
          /\ sess.view.currentSessionId = sess.last.h
          /\ sess.currentSessionId = sess.last.h
          /\ sess.framesCaptured = 0 /\ sess.lastLevel = 0
          /\ ~mic.isCapturing

\* the sessions with status RUNNING in the table
RunningSessions == {x \in SessIds : sess.store[x] = "RUNNING"}

\* no startSession or stopSession call is in progress
CtlSettled ==
    /\ sess.stop.pc = "idle"
    /\ \A h \in SessIds : sess.starts[h].pc \in {"new", "done"}

\* C27: at most one session has status RUNNING at any time, whatever the
\* sequence of startSession / stopSession calls, and once the controller has
\* no current session (and no call is in progress) every session that was
\* started is COMPLETED.
C27_OneRunningSession ==
    /\ Cardinality(RunningSessions) <= 1
    /\ (CtlSettled /\ sess.currentSessionId = 0) => RunningSessions = {}

\* C27 while no handleStart overlapped another and no db.endSession failed
C27_OneRunningSessionOrderly ==
    ((\A h \in SessIds : ~sess.starts[h].overlapped) /\ sess.last.op # "endFailed") =>
        /\ Cardinality(RunningSessions) <= 1
        /\ (CtlSettled /\ sess.currentSessionId = 0 /\ ~sess.view.isRecording)
              => RunningSessions = {}

\* C28: stopSession is all-or-nothing.  If db.endSession fails, the microphone
\* capture and the controller's currentSessionId and stats are as they were
\* before the call; if it succeeds, the session row is COMPLETED, the
\* microphone is stopped and the controller has no current session.
C28_StopAllOrNothing ==
    /\ sess.last.op = "endFailed" =>
          /\ mic.isCapturing = sess.stop.isCapturing
          /\ sess.currentSessionId = sess.stop.currentSessionId
          /\ sess.framesCaptured = sess.stop.framesCaptured
          /\ sess.lastLevel = sess.stop.lastLevel
    /\ sess.last.op = "ended" =>
          /\ sess.store[sess.last.h] = "COMPLETED"
          /\ ~mic.isCapturing
          /\ sess.currentSessionId = 0

\* the half of C28 about a db.endSession that succeeds, when no handleStart
\* overlapped another
C28_StopSucceeds ==
    (sess.last.op = "ended" /\ \A h \in SessIds : ~sess.starts[h].overlapped) =>
          /\ sess.store[sess.last.h] = "COMPLETED"
          /\ ~mic.isCapturing
          /\ sess.currentSessionId = 0

----------------------------------------------------------------------------
(* The 'audio:startLoopback' and 'audio:stopLoopback' handlers of main.js *)

\* main.js 489-492 and 520-523: the stored level handler is removed
RemoveLevelHandler(w) ==
    [w EXCEPT !.lenv.levelListeners = @ \ {w.lb.levelHandler},
              !.lb.levelHandler = 0]

\* main.js 501-508: the level handler of request i is registered and stored
AddLevelHandler(w, i) ==
    [w EXCEPT !.lenv.levelListeners = @ \cup {i}, !.lb.levelHandler = i]

\* 'audio:startLoopback', request i, up to the await inside startLoopback (the
\* requests come from the main window's renderer, main.js 484-486): the
\* stored level handler is removed, then startLoopback throws (already
\* capturing; the handler rethrows) or creates its window
IpcStartLoopback(i) ==
    /\ lenv.mainWindow = "open"
    /\ lcalls[i].pc = "new"
    /\ \A j \in LoopIds : j < i => lcalls[j].pc # "new"
    /\ LET w1 == RemoveLevelHandler(LoopWorld) IN
         /\ lb' = w1.lb
         /\ IF lb.isCapturing
            THEN /\ lcalls' = [lcalls EXCEPT ![i].pc = "done",
                                             ![i].result = "alreadyRunning"]
                 /\ lenv' = Quiet(w1.lenv)
            ELSE /\ lcalls' = [lcalls EXCEPT ![i].pc = "awaitLoad"]
                 /\ lenv' = Quiet([w1.lenv EXCEPT !.windows[i] = "loading"])
    /\ llast' = [op |-> "start", call |-> i, pre |-> lb, fresh |-> lenv.fresh]
    /\ UNCHANGED <<uiVars, pipeVars, micVars>>

\* startLoopback of request i resolves and the handler registers its level
\* handler
IpcReadyFires(i) ==
    /\ lcalls[i].pc = "awaitReady"
    /\ lenv.windows[i] = "loaded"
    /\ LET r  == StartLoopbackSucceeds(LoopWorld, i)
           w1 == AddLevelHandler(r.w, i)
       IN /\ lb' = w1.lb
          /\ lenv' = Quiet(w1.lenv)
          /\ lcalls' = [lcalls EXCEPT ![i].pc = r.pc, ![i].result = r.result]
    /\ llast' = [op |-> "continue", call |-> i, pre |-> lb, fresh |-> lenv.fresh]
    /\ UNCHANGED <<uiVars, pipeVars, micVars>>

\* 'audio:stopLoopback', main.js 518-530
IpcStopLoopback ==
    /\ lenv.mainWindow = "open"
    /\ LET r == StopLoopback(RemoveLevelHandler(LoopWorld)) IN
         /\ lb' = r.lb
         /\ lenv' = Quiet(r.lenv)
    /\ lcalls' = LcallsAfterStop(lcalls)
    /\ llast' = [op |-> "stop", call |-> 0, pre |-> lb, fresh |-> lenv.fresh]
    /\ UNCHANGED <<uiVars, pipeVars, micVars>>

NextIpc ==
    \/ \E i \in LoopIds : IpcStartLoopback(i)
    \/ \E i \in LoopIds, inTime \in BOOLEAN : LbLoadResolves(i, inTime)
    \/ \E i \in LoopIds : LbLoadRejects(i)
    \/ \E i \in LoopIds : IpcReadyFires(i)
    \/ \E i \in LoopIds : LbReadyTimeout(i)
    \/ IpcStopLoopback
    \/ \E i \in LoopIds : LbPcmMessage(i)
    \/ \E t \in LoopIds : LbRmsTick(t)

SpecIpc == InitLoop /\ [][NextIpc]_vars

\* C29: while loopback capture started through 'audio:startLoopback' is
\* running, exactly one 'level' listener forwarding to the main window is
\* registered; a request rejected because capture is already running leaves
\* that listener and the running capture unchanged.
C29_OneLevelListener ==
    /\ lb.isCapturing => Cardinality(lenv.levelListeners) = 1
    /\ (llast.op = "start" /\ lcalls[llast.call].result = "alreadyRunning") =>
          /\ lb = llast.pre
          /\ lb.levelHandler \in lenv.levelListeners

\* the first half of C29 while a single request has been made
C29_OneLevelListenerSingleRequest ==
    (\A i \in LoopIds : i > 1 => lcalls[i].pc = "new") =>
        (lb.isCapturing => Cardinality(lenv.levelListeners) = 1)

\* the hidden windows that exist
HiddenWindows == {i \in LoopIds : lenv.windows[i] \in {"loading", "loaded"}}

\* C30: at any time at most one hidden capture window exists and at most one
\* 'loopback-pcm-data' listener is registered, also when two startLoopback
\* calls overlap on the window load; after stopLoopback returns none remain.
C30_OneWindowOneListener ==
    /\ Cardinality(HiddenWindows) <= 1
    /\ Cardinality(lenv.listeners) <= 1
    /\ llast.op = "stop" => (HiddenWindows = {} /\ lenv.listeners = {})

----------------------------------------------------------------------------
(* A poll tick on a block that holds a non-finite sample *)

\* the tick found the capture running: the guard of lines 493-495 passed
TickFoundCapturing ==
    /\ last.op = "tick"
    /\ last.pre.isCapturing
    /\ last.pre.analyserNode # 0
    /\ last.pre.audioContext # 0

\* C31: a poll tick whose block holds a non-finite sample invokes neither the
\* level nor the frame callback and leaves the sample buffer (and every other
\* field) as it was; isCapturing stays true and the timer that ticked stays
\* active.  A tick on a valid block still invokes the level callback.
C31_BadBlockSkipped ==
    /\ (TickFoundCapturing /\ ~last.finite) =>
          /\ env.invoked = 0
          /\ mic = last.pre
          /\ mic.isCapturing
          /\ last.call \in env.timers
    /\ (TickFoundCapturing /\ last.finite /\ last.pre.onLevelCallback # 0) =>
          env.invoked >= 1

\* a tick on a block with a non-finite sample has run on a capturing
\* microphone that had samples buffered and both callbacks set
C31_Witness ==
    /\ TickFoundCapturing
    /\ ~last.finite
    /\ last.pre.sampleBuffer # <<>>
    /\ last.pre.onLevelCallback # 0
    /\ last.pre.onPcmFrameCallback # 0

----------------------------------------------------------------------------
(* The main window closes while loopback capture is in use *)

\* the handler of the main window's 'closed' event, main.js 250-262
MainWindowClosed ==
    /\ lenv.mainWindow = "open"
    /\ LET w1 == RemoveLevelHandler(LoopWorld)
           w2 == IF w1.lb.isCapturing THEN StopLoopback(w1) ELSE w1
       IN /\ lb' = w2.lb
          /\ lenv' = Quiet([w2.lenv EXCEPT !.mainWindow = "closed"])
    /\ lcalls' = IF lb.isCapturing THEN LcallsAfterStop(lcalls) ELSE lcalls
    /\ llast' = [op |-> "closed", call |-> 0, pre |-> lb, fresh |-> lenv.fresh]
    /\ UNCHANGED <<uiVars, pipeVars, micVars>>

\* the level handlers of main.js 501-505 on a 'level' event: each registered
\* handler sends the level on when the main window is there and not destroyed
LevelHandlers(w) ==
    [w EXCEPT !.lenv.forwarded =
                 IF w.lenv.levels > 0 /\ w.lenv.mainWindow = "open"
                 THEN Cardinality(w.lenv.levelListeners) ELSE 0]

\* the active interval t of the level monitor ticks, and the level it emits
\* reaches the level handlers
IpcRmsTick(t) ==
    /\ t \in lenv.timers
    /\ LET r == LevelHandlers(RmsTick(LoopWorld)) IN
         /\ lb' = r.lb
         /\ lenv' = r.lenv
    /\ llast' = [op |-> "tick", call |-> t, pre |-> lb, fresh |-> lenv.fresh]
    /\ UNCHANGED <<uiVars, lcalls, pipeVars, micVars>>

NextWindow ==
    \/ \E i \in LoopIds : IpcStartLoopback(i)
    \/ \E i \in LoopIds, inTime \in BOOLEAN : LbLoadResolves(i, inTime)
    \/ \E i \in LoopIds : LbLoadRejects(i)
    \/ \E i \in LoopIds : IpcReadyFires(i)
    \/ \E i \in LoopIds : LbReadyTimeout(i)
    \/ IpcStopLoopback
    \/ \E i \in LoopIds : LbPcmMessage(i)
    \/ \E t \in LoopIds : IpcRmsTick(t)
    \/ MainWindowClosed

SpecWindow == InitLoop /\ [][NextWindow]_vars

\* C32: after the main window's 'closed' event has been handled, loopback
\* capture is not capturing and no 'level' listener forwarding to the window
\* is registered, whatever the capture state was when the window closed; and
\* no level is sent to a destroyed or absent window.
C32_ClosedWindowStopsLoopback ==
    /\ lenv.mainWindow = "closed" => (~lb.isCapturing /\ lenv.levelListeners = {})
    /\ (llast.op = "tick" /\ lenv.mainWindow = "closed") => lenv.forwarded = 0

\* the last part of C32: no level is sent to a destroyed or absent window
C32_NothingSentToClosedWindow ==
    (llast.op = "tick" /\ lenv.mainWindow = "closed") => lenv.forwarded = 0

\* C32 in the state the 'closed' handler leaves, when a single request had
\* been made and it was not in progress
C32_ClosedWindowStopsLoopbackSingleRequest ==
    (/\ llast.op = "closed"
     /\ lcalls[1].pc \in {"new", "done"}
     /\ \A i \in LoopIds : i > 1 => lcalls[i].pc = "new")
    => (~lb.isCapturing /\ lenv.levelListeners = {})

-----------------------------------------------------------------------------
(* The database module of the main process (db.js) *)

\* What new Database(dbPath) and the creation of the tables do on one call:
\* both succeed, the connection cannot be opened, the native module was not
\* built for Electron, or a CREATE TABLE statement fails.
DbOutcomes == {"ok", "openFails", "notBuilt", "tablesFail"}

\* initializationFailed = true; initializationError = error
DbFails(m, error) ==
    [m EXCEPT !.initializationFailed = TRUE, !.initializationError = error]

\* Mutation of InitializeDb: a call made before the app is ready throws
\* without recording the failure.
InitializeDbRetriesWhenReady(m, o) ==
    IF m.db # 0 THEN [m |-> m, ret |-> m.db, threw |-> "none"]
    ELSE IF m.initializationFailed
    THEN [m |-> m, ret |-> 0,
          threw |-> IF m.initializationError # "none" THEN m.initializationError
                    ELSE "previouslyFailed"]
    ELSE IF ~m.appReady
    THEN [m |-> m, ret |-> 0, threw |-> "notReady"]
    ELSE LET c == m.opened + 1
             tried == [m EXCEPT !.opened = c]
         IN CASE o = "openFails" ->
                   [m |-> DbFails(tried, "open"), ret |-> 0, threw |-> "open"]
              [] o = "notBuilt" ->
                   [m |-> DbFails(tried, "rebuild"), ret |-> 0, threw |-> "rebuild"]
              [] o = "tablesFail" ->
                   [m |-> DbFails([tried EXCEPT !.closed = @ \cup {c}, !.db = 0], "tables"),
                    ret |-> 0, threw |-> "tables"]
              [] OTHER ->
                   [m |-> [tried EXCEPT !.db = c], ret |-> c, threw |-> "none"]

\* Mutation of InitializeDb: a failed table creation keeps the connection.
InitializeDbKeepsConnection(m, o) ==
    IF m.db # 0 THEN [m |-> m, ret |-> m.db, threw |-> "none"]
    ELSE IF m.initializationFailed
    THEN [m |-> m, ret |-> 0,
          threw |-> IF m.initializationError # "none" THEN m.initializationError
                    ELSE "previouslyFailed"]
    ELSE IF ~m.appReady
    THEN [m |-> DbFails(m, "notReady"), ret |-> 0, threw |-> "notReady"]
    ELSE LET c == m.opened + 1
             tried == [m EXCEPT !.opened = c]
         IN CASE o = "openFails" ->
                   [m |-> DbFails(tried, "open"), ret |-> 0, threw |-> "open"]
              [] o = "notBuilt" ->
                   [m |-> DbFails(tried, "rebuild"), ret |-> 0, threw |-> "rebuild"]
              [] o = "tablesFail" ->
                   [m |-> DbFails([tried EXCEPT !.db = c], "tables"),
                    ret |-> 0, threw |-> "tables"]
              [] OTHER ->
                   [m |-> [tried EXCEPT !.db = c], ret |-> c, threw |-> "none"]

\* initializeDb() (lines 32-117) on the module state m when the environment
\* does o: the state it leaves, the connection it returns (0 when it throws)
\* and the error it throws ("none" when it returns).  The connection made by
\* the c-th new Database() call is c.
InitializeDb(m, o) ==
    IF m.db # 0 THEN [m |-> m, ret |-> m.db, threw |-> "none"]            \* 33-35
    ELSE IF m.initializationFailed                                        \* 38-40
    THEN [m |-> m, ret |-> 0,
          threw |-> IF m.initializationError # "none" THEN m.initializationError
                    ELSE "previouslyFailed"]
    ELSE IF ~m.appReady                                                   \* 42-47
    THEN [m |-> DbFails(m, "notReady"), ret |-> 0, threw |-> "notReady"]
    ELSE LET c == m.opened + 1
             tried == [m EXCEPT !.opened = c]
         IN CASE o = "openFails" ->                                       \* 54-58, 71
                   [m |-> DbFails(tried, "open"), ret |-> 0, threw |-> "open"]
              [] o = "notBuilt" ->                                        \* 60-70
                   [m |-> DbFails(tried, "rebuild"), ret |-> 0, threw |-> "rebuild"]
              [] o = "tablesFail" ->                                      \* 100-114
                   [m |-> DbFails([tried EXCEPT !.closed = @ \cup {c}, !.db = 0], "tables"),
                    ret |-> 0, threw |-> "tables"]
              [] OTHER ->                                                 \* 52, 116
                   [m |-> [tried EXCEPT !.db = c], ret |-> c, threw |-> "none"]

\* getDb() (lines 119-134): it never throws; caught is what the initializeDb
\* it may call threw.
GetDb(m, o) ==
    IF m.db = 0 /\ ~m.initializationFailed
    THEN LET r == InitializeDb(m, o)
         IN [m |-> r.m, ret |-> IF r.threw = "none" THEN r.ret ELSE 0,
             threw |-> "none", caught |-> r.threw]
    ELSE IF m.initializationFailed
    THEN [m |-> m, ret |-> 0, threw |-> "none", caught |-> "none"]
    ELSE [m |-> m, ret |-> m.db, threw |-> "none", caught |-> "none"]

\* The module state after a call, with the history of the calls brought up
\* to date.
DbAfterCall(op, r, failed) ==
    [r.m EXCEPT !.calls = @ + 1,
                !.failedOnce = @ \/ failed,
                !.first = IF @ = 0 THEN r.ret ELSE @,
                !.log = Append(@, [op |-> op, ret |-> r.ret, threw |-> r.threw]),
                !.last = [op |-> op, ret |-> r.ret, threw |-> r.threw,
                          failedBefore |-> dbm.failedOnce, firstBefore |-> dbm.first,
                          openedBefore |-> dbm.opened]]

\* app.whenReady() resolves
AppBecomesReady ==
    /\ ~dbm.appReady
    /\ dbm' = [dbm EXCEPT !.appReady = TRUE, !.last = [DbNew.last EXCEPT !.op = "ready"]]
    /\ UNCHANGED <<ui, sess, gen, pipeVars, micVars, loopVars>>

\* some code of the main process calls initializeDb()
CallInitializeDb(o) ==
    /\ dbm.calls < MaxDbCalls
    /\ LET r == InitializeDb(dbm, o)
       IN dbm' = DbAfterCall("initializeDb", r, r.threw # "none")
    /\ UNCHANGED <<ui, sess, gen, pipeVars, micVars, loopVars>>

\* an IPC handler calls getDb()
CallGetDb(o) ==
    /\ dbm.calls < MaxDbCalls
    /\ LET r == GetDb(dbm, o)
       IN dbm' = DbAfterCall("getDb", r, r.caught # "none")
    /\ UNCHANGED <<ui, sess, gen, pipeVars, micVars, loopVars>>

InitDb == InitLoop

NextDb ==
    \/ AppBecomesReady
    \/ \E o \in DbOutcomes : CallInitializeDb(o)
    \/ \E o \in DbOutcomes : CallGetDb(o)

SpecDb == InitDb /\ [][NextDb]_vars

\* C33: once an initializeDb has failed (a call before the app was ready
\* included), every later initializeDb throws without a new Database() call
\* and every later getDb returns null without one; once an initializeDb has
\* succeeded, every later initializeDb and getDb returns that same connection.
C33_InitializationSticky ==
    /\ (dbm.last.op = "initializeDb" /\ dbm.last.failedBefore) =>
          (dbm.last.threw # "none" /\ dbm.opened = dbm.last.openedBefore)
    /\ (dbm.last.op = "getDb" /\ dbm.last.failedBefore) =>
          (dbm.last.ret = 0 /\ dbm.opened = dbm.last.openedBefore)
    /\ (dbm.last.op \in {"initializeDb", "getDb"} /\ dbm.last.firstBefore # 0) =>
          /\ dbm.last.ret = dbm.last.firstBefore /\ dbm.last.threw = "none"
          /\ dbm.opened = dbm.last.openedBefore
    /\ \A i, j \in 1..Len(dbm.log) :
          (dbm.log[i].ret # 0 /\ i < j) =>
             (dbm.log[j].ret = dbm.log[i].ret /\ dbm.log[j].threw = "none")

\* initializeDb is called again, with the app ready, after a call made before
\* the app was ready had failed.
C33_Witness ==
    /\ dbm.last.op = "initializeDb" /\ dbm.last.failedBefore
    /\ dbm.appReady /\ dbm.initializationError = "notReady"

\* C35: in every state of the db module, a connection that is not null
\* implies initializationFailed is false, and initializationFailed implies
\* that initializationError is recorded and the connection is null.
C35_DbModuleInvariant ==
    /\ dbm.db # 0 => ~dbm.initializationFailed
    /\ dbm.initializationFailed => (dbm.initializationError # "none" /\ dbm.db = 0)

\* The table creation failed on a connection that had been opened.
C35_Witness ==
    /\ dbm.initializationFailed /\ dbm.initializationError = "tables"
    /\ dbm.opened \in dbm.closed

-----------------------------------------------------------------------------
(* The fake transcript generator (FakeTranscriptGenerator.ts) *)

\* Math.max(500, text.length * 80)
MinDurationMs == 500

MsPerCharacter == 80

\* this.currentTimeMs = endMs + 100
GapMs == 100

Speaker(g) == IF g.speakerIndex = 0 THEN "SELF" ELSE "OTHER"

\* text.length of the shortest and of the longest phrase a speaker's event
\* is picked from: INTERVIEWEE_PHRASES for SELF, INTERVIEWER_PHRASES for OTHER
PhraseLengthsOf(speaker) == IF speaker = "SELF" THEN {42, 85} ELSE {29, 56}

EstimatedDurationMs(len) ==
    IF len * MsPerCharacter > MinDurationMs THEN len * MsPerCharacter ELSE MinDurationMs

\* generateEvent() up to its await (lines 81-112): the event is built from
\* the fields as they are now and its insert is sent.  overlapped records
\* that an earlier insert had not settled.
GenerateEvent(g, len) ==
    IF g.sessionId = 0 THEN g
    ELSE [g EXCEPT
            !.pending = Append(@, [sessionId |-> g.sessionId, speaker |-> Speaker(g),
                                   startMs |-> g.currentTimeMs,
                                   endMs |-> g.currentTimeMs + EstimatedDurationMs(len)]),
            !.generated = @ + 1,
            !.overlapped = @ \/ g.pending # <<>>]

\* stop() (lines 70-76)
GeneratorStop(g) == [g EXCEPT !.intervalId = 0, !.sessionId = 0]

\* start(sessionId) (lines 48-65)
GeneratorStart(g, sessionId, len) ==
    LET g1 == IF g.intervalId # 0 THEN GeneratorStop(g) ELSE g
        g2 == [g1 EXCEPT !.sessionId = sessionId, !.currentTimeMs = 0, !.speakerIndex = 0]
        g3 == GenerateEvent(g2, len)
    IN [g3 EXCEPT !.intervalId = g.intervals + 1, !.intervals = @ + 1]

GenLast(op) ==
    [op |-> op, currentTimeMs |-> gen.currentTimeMs, speakerIndex |-> gen.speakerIndex]

\* start() is called for a session; each session has an id of its own.
GenStart(len) ==
    /\ gen.generated < MaxEvents
    /\ len \in PhraseLengthsOf("SELF")
    /\ gen' = [GeneratorStart(gen, gen.sessions + 1, len) EXCEPT
                 !.sessions = @ + 1, !.last = GenLast("start")]
    /\ UNCHANGED <<ui, sess, dbm, pipeVars, micVars, loopVars>>

\* the 700 ms interval fires (lines 62-64)
GenIntervalFires(len) ==
    /\ gen.intervalId # 0
    /\ gen.generated < MaxEvents
    /\ len \in PhraseLengthsOf(Speaker(gen))
    /\ gen' = [GenerateEvent(gen, len) EXCEPT !.last = GenLast("generate")]
    /\ UNCHANGED <<ui, sess, dbm, pipeVars, micVars, loopVars>>

GenStop ==
    /\ gen.intervalId # 0
    /\ gen' = [GeneratorStop(gen) EXCEPT !.last = GenLast("stop")]
    /\ UNCHANGED <<ui, sess, dbm, pipeVars, micVars, loopVars>>

\* The oldest insert settles and generateEvent resumes (lines 112-120):
\* 'db:insertTranscriptEvent' requests are handled in the order they were
\* sent.  A fulfilled insert has added its row to transcript_events.
GenInsertSettles(ok) ==
    /\ gen.pending # <<>>
    /\ LET e == Head(gen.pending)
       IN gen' = IF ok
                 THEN [gen EXCEPT !.pending = Tail(@),
                                  !.events = Append(@, e),
                                  !.currentTimeMs = e.endMs + GapMs,
                                  !.speakerIndex = (@ + 1) % 2,
                                  !.last = GenLast("inserted")]
                 ELSE [gen EXCEPT !.pending = Tail(@),
                                  !.last = GenLast("insertFailed")]
    /\ UNCHANGED <<ui, sess, dbm, pipeVars, micVars, loopVars>>

NextGen ==
    \/ \E len \in PhraseLengthsOf("SELF") : GenStart(len)
    \/ \E len \in PhraseLengthsOf("SELF") \cup PhraseLengthsOf("OTHER") : GenIntervalFires(len)
    \/ GenStop
    \/ \E ok \in BOOLEAN : GenInsertSettles(ok)

SpecGen == InitLoop /\ [][NextGen]_vars

\* the rows of transcript_events of one session, in insertion order
EventsOf(s) == SelectSeq(gen.events, LAMBDA e : e.sessionId = s)

TakesTurns(E) ==
    \A k \in 1..Len(E) : E[k].speaker = IF k % 2 = 1 THEN "SELF" ELSE "OTHER"

FollowOn(E) ==
    \A k \in 1..Len(E) : E[k].startMs = IF k = 1 THEN 0 ELSE E[k-1].endMs + GapMs

\* C34: the events inserted for a session alternate SELF, OTHER, SELF, ...
\* from SELF, each starts 100 ms after the end of the one inserted before it
\* (the first at 0), however long the inserts take, and a failed insert
\* leaves the speaker and the time as they were.
C34_TranscriptAlternates ==
    /\ \A s \in 1..MaxEvents : TakesTurns(EventsOf(s)) /\ FollowOn(EventsOf(s))
    /\ gen.last.op = "insertFailed" =>
          /\ gen.currentTimeMs = gen.last.currentTimeMs
          /\ gen.speakerIndex = gen.last.speakerIndex

\* A failed insert leaves the speaker and the time as they were.
C34_FailedInsertChangesNothing ==
    gen.last.op = "insertFailed" =>
       /\ gen.currentTimeMs = gen.last.currentTimeMs
       /\ gen.speakerIndex = gen.last.speakerIndex

\* While every insert settles before the next event is generated, the events
\* of a session alternate from SELF and follow one another 100 ms apart.
C34_AlternatesWhenInsertsKeepUp ==
    ~gen.overlapped =>
       \A s \in 1..MaxEvents : TakesTurns(EventsOf(s)) /\ FollowOn(EventsOf(s))

====
